---- MODULE Spec2Model ----
(***************************************************************************)
(* A model of the interactive console of peepdf (peepdf/PDFConsole.py).    *)
(*                                                                         *)
(* The console is a single-threaded command loop: every do_xxx handler is  *)
(* one atomic action that takes the text typed after the command name      *)
(* (argv), splits it with parseArgs, validates it, calls the core and ends *)
(* in log_output.  Python values are modelled as tagged records so that a  *)
(* str, a bytes buffer, a list, an int and None stay distinguishable.      *)
(***************************************************************************)
EXTENDS Integers, Sequences, FiniteSets, TLC

VARIABLES
    pdfFile,          \* self.pdfFile: NoDocument or the open document
    variables,        \* self.variables: name -> [cur, def, same]
    redirect,         \* self.redirect, set by parseArgs
    outputVarName,    \* self.outputVarName, set by parseArgs
    outputFileName,   \* self.outputFileName, set by parseArgs
    files,            \* the file system: name -> content
    printed,          \* what the last command wrote to the console
    coreCalls,        \* the calls the last command made into the core
    ret,              \* what the last handler returned
    cmdLine,          \* the last command line: [cmd, argv]
    history,          \* observations about earlier commands
    build,            \* the interactive object construction in progress
    env,              \* the installation: optional modules, interactive or batch
    leaving           \* self.leaving, set by postloop when the command loop ends

vars == <<pdfFile, variables, redirect, outputVarName, outputFileName, files,
          printed, coreCalls, ret, cmdLine, history, build, env, leaving>>

(***************************************************************************)
(* Python values.                                                          *)
(***************************************************************************)
PyNone == [none |-> TRUE]
PyStr(s) == [str |-> s]
PyInt(i) == [int |-> i]
PyBytes(b) == [bytes |-> b]
\* A list of integers; chars holds the characters a later "+=" of a str
\* appended to it (list += str extends the list with the characters).
PyList(l, c) == [list |-> l, chars |-> c]

IsNone(v) == "none" \in DOMAIN v
IsStr(v) == "str" \in DOMAIN v
IsInt(v) == "int" \in DOMAIN v
IsBytes(v) == "bytes" \in DOMAIN v
IsList(v) == "list" \in DOMAIN v

\* s[a:b] of Python for 0 <= a, b (half open, 0 based, clipped).
Min(a, b) == IF a < b THEN a ELSE b
Slice(s, a, b) == SubSeq(s, a + 1, Min(b, Len(s)))
From(s, a) == SubSeq(s, a + 1, Len(s))
CharAt(s, i) == SubSeq(s, i + 1, i + 1)

StartsWith(s, p) == Len(s) >= Len(p) /\ SubSeq(s, 1, Len(p)) = p

\* str.find(sub): lowest 0-based index of sub in s, or -1.
FindFrom(s, sub, i) ==
    LET found == {k \in i..(Len(s) - Len(sub)) : SubSeq(s, k + 1, k + Len(sub)) = sub}
    IN  IF found = {} THEN -1 ELSE CHOOSE k \in found : \A j \in found : k <= j
Find(s, sub) == FindFrom(s, sub, 0)

\* str.replace(old, new) for a non-empty old: every non-overlapping
\* occurrence, left to right.
RECURSIVE Replace(_, _, _)
Replace(s, old, new) ==
    LET i == Find(s, old) IN
    IF old = "" \/ i = -1 THEN s
    ELSE Slice(s, 0, i) \o new \o Replace(From(s, i + Len(old)), old, new)

DigitChars == "0123456789"
\* str.isdigit() on ASCII text.
AllDigits(s) == \A k \in 0..(Len(s) - 1) : Find(DigitChars, CharAt(s, k)) # -1
isdigit(s) == s # "" /\ AllDigits(s)

\* int(s) for a string of digits.
RECURSIVE IntAcc(_, _)
IntAcc(s, acc) ==
    IF s = "" THEN acc
    ELSE IntAcc(From(s, 1), acc * 10 + Find(DigitChars, CharAt(s, 0)))
int(s) == IntAcc(s, 0)

\* str(n) for an integer.
RECURSIVE NatStr(_)
NatStr(n) ==
    IF n < 10 THEN CharAt(DigitChars, n)
    ELSE NatStr(n \div 10) \o CharAt(DigitChars, n % 10)
IntStr(n) == IF n < 0 THEN "-" \o NatStr(0 - n) ELSE NatStr(n)

RECURSIVE JoinInts(_)
JoinInts(l) ==
    IF l = <<>> THEN ""
    ELSE IF Len(l) = 1 THEN IntStr(l[1])
    ELSE JoinInts(SubSeq(l, 1, Len(l) \div 2)) \o ", "
         \o JoinInts(SubSeq(l, Len(l) \div 2 + 1, Len(l)))

(***************************************************************************)
(* parseArgs: splits the command arguments by quotes and blanks, then      *)
(* recognises an output redirection at the end of the line.                *)
(***************************************************************************)
FILE_WRITE == 1
FILE_ADD == 2
VAR_WRITE == 3
VAR_ADD == 4
NoRedirect == 0

Quote1 == "'"
Quote3 == "'''"
Quote2 == "\""

\* The while loop of parseArgs: NotParsed stands for "return None".
NotParsed == <<"<not parsed>">>
RECURSIVE splitArgs(_, _)
splitArgs(args, argsArray) ==
    IF Len(args) = 0 THEN argsArray
    ELSE IF CharAt(args, 0) = Quote1 THEN
        IF Slice(args, 0, 3) = Quote3 THEN
            LET index == Find(From(args, 3), Quote3) IN
            IF index # -1
            THEN splitArgs(IF Len(args) > index + 6 THEN From(args, index + 6) ELSE "",
                           Append(argsArray, Slice(args, 3, index + 3)))
            ELSE NotParsed
        ELSE
            LET index == Find(From(args, 1), Quote1) IN
            IF index # -1
            THEN splitArgs(IF Len(args) > index + 2 THEN From(args, index + 2) ELSE "",
                           Append(argsArray, Slice(args, 1, index + 1)))
            ELSE NotParsed
    ELSE IF CharAt(args, 0) = Quote2 THEN
        LET index == Find(From(args, 1), Quote2) IN
        IF index # -1
        THEN splitArgs(IF Len(args) > index + 2 THEN From(args, index + 2) ELSE "",
                       Append(argsArray, Slice(args, 1, index + 1)))
        ELSE NotParsed
    ELSE IF CharAt(args, 0) = " " THEN splitArgs(From(args, 1), argsArray)
    ELSE
        LET index == Find(args, " ") IN
        IF index # -1
        THEN splitArgs(IF Len(args) > index + 1 THEN From(args, index + 1) ELSE "",
                       Append(argsArray, Slice(args, 0, index)))
        ELSE splitArgs("", Append(argsArray, args))

redirectSymbols == {">", ">>", "$>", "$>>"}

Parsed(a, r, v, f) ==
    [ok |-> TRUE, args |-> a, redirect |-> r, outputVarName |-> v, outputFileName |-> f]

\* The redirection glued to its target, as the last argument.
gluedRedirect(argsArray) ==
    LET n == Len(argsArray)
        last == argsArray[n]
        front == SubSeq(argsArray, 1, n - 1)
    IN  IF Slice(last, 0, 2) = ">>" /\ Len(last) > 2
        THEN Parsed(front, FILE_ADD, PyNone, PyStr(From(last, 2)))
        ELSE IF Slice(last, 0, 1) = ">" /\ Len(last) > 1
        THEN Parsed(front, FILE_WRITE, PyNone, PyStr(From(last, 1)))
        ELSE IF Slice(last, 0, 3) = "$>>" /\ Len(last) > 3
        THEN Parsed(front, VAR_ADD, PyStr(From(last, 3)), PyNone)
        ELSE IF Slice(last, 0, 2) = "$>" /\ Len(last) > 2
        THEN Parsed(front, VAR_WRITE, PyStr(From(last, 2)), PyNone)
        ELSE Parsed(argsArray, NoRedirect, PyNone, PyNone)

parseArgs(args) ==
    LET argsArray == splitArgs(args, <<>>)
        n == Len(argsArray)
    IN  IF argsArray = NotParsed
        THEN [ok |-> FALSE, args |-> <<>>, redirect |-> NoRedirect,
              outputVarName |-> PyNone, outputFileName |-> PyNone]
        ELSE IF n > 1 /\ argsArray[n - 1] \in redirectSymbols THEN
            LET sym == argsArray[n - 1]
                target == PyStr(argsArray[n])
                front == SubSeq(argsArray, 1, n - 2)
            IN  IF sym = ">" THEN Parsed(front, FILE_WRITE, PyNone, target)
                ELSE IF sym = ">>" THEN Parsed(front, FILE_ADD, PyNone, target)
                ELSE IF sym = "$>" THEN Parsed(front, VAR_WRITE, target, PyNone)
                ELSE Parsed(front, VAR_ADD, target, PyNone)
        ELSE IF n > 0 THEN gluedRedirect(argsArray)
        ELSE Parsed(argsArray, NoRedirect, PyNone, PyNone)

(***************************************************************************)
(* log_output: writes the output of a command to the console or, when the  *)
(* command line ended with a redirection, to files / variables.            *)
(***************************************************************************)
newLine == "\n"

RECURSIVE lstripNL(_)
lstripNL(s) == IF s # "" /\ CharAt(s, 0) = newLine THEN lstripNL(From(s, 1)) ELSE s
RECURSIVE rstripNL(_)
rstripNL(s) ==
    IF s # "" /\ CharAt(s, Len(s) - 1) = newLine THEN rstripNL(Slice(s, 0, Len(s) - 1)) ELSE s

\* niceOutput: the text shown for an output.  A str is stripped of the
\* surrounding line ends and gets "\n" line ends; a bytes buffer is shown
\* through printResult (its latin-1 text or a hexadecimal dump), which is
\* kept abstract as [shown |-> buffer].
niceOutputOf(output) ==
    IF IsBytes(output) THEN [shown |-> output.bytes]
    ELSE PyStr(Replace(Replace(rstripNL(lstripNL(output.str)), "\r\n", "\n"), "\r", "\n"))

Entry(cur, def, same) == [cur |-> cur, def |-> def, same |-> same]

\* a += b as Python evaluates it; Raised when the operand types do not add.
Raised == [raised |-> TRUE]
IAdd(a, b) ==
    IF IsStr(a) /\ IsStr(b) THEN PyStr(a.str \o b.str)
    ELSE IF IsBytes(a) /\ IsBytes(b) THEN PyBytes(a.bytes \o b.bytes)
    ELSE IF IsList(a) /\ IsStr(b) THEN PyList(a.list, a.chars \o b.str)
    ELSE IF IsList(a) /\ IsBytes(b) /\ a.chars = "" THEN PyList(a.list \o b.bytes, "")
    ELSE Raised

\* open(name, "wb").write(v) and open(name, "ab").write(v): a binary file
\* accepts bytes only; the file is opened (created, truncated) before the
\* write raises.
FileWrite(fs, name, v) ==
    [n \in DOMAIN fs \cup {name} |->
        IF n = name THEN (IF IsBytes(v) THEN v ELSE PyBytes(<<>>)) ELSE fs[n]]
FileAdd(fs, name, v) ==
    [n \in DOMAIN fs \cup {name} |->
        IF n # name THEN fs[n]
        ELSE IF n \in DOMAIN fs
             THEN (IF IsBytes(v) /\ IsBytes(fs[n]) THEN PyBytes(fs[n].bytes \o v.bytes) ELSE fs[n])
             ELSE (IF IsBytes(v) THEN v ELSE PyBytes(<<>>))]

SetVar(vs, name, e) == [n \in DOMAIN vs \cup {name} |-> IF n = name THEN e ELSE vs[n]]

TargetName(name, i) == IF i = 0 THEN name ELSE name \o "_" \o IntStr(i)

\* The loop of log_output over bytesToSave, from buffer i (0 based) on.
RECURSIVE saveLoop(_, _, _, _, _)
saveLoop(vs, fs, r, bytesToSave, i) ==
    IF i >= Len(bytesToSave) THEN [variables |-> vs, files |-> fs, raised |-> FALSE]
    ELSE
    LET byteVal == bytesToSave[i + 1] IN
    IF r.redirect \in {FILE_WRITE, FILE_ADD} /\ ~IsNone(r.outputFileName) THEN
        LET outFile == TargetName(r.outputFileName.str, i)
            fs2 == IF r.redirect = FILE_WRITE THEN FileWrite(fs, outFile, byteVal)
                   ELSE FileAdd(fs, outFile, byteVal)
        IN  IF IsBytes(byteVal) THEN saveLoop(vs, fs2, r, bytesToSave, i + 1)
            ELSE [variables |-> vs, files |-> fs2, raised |-> TRUE]
    ELSE IF r.redirect \in {VAR_WRITE, VAR_ADD} /\ ~IsNone(r.outputVarName) THEN
        LET varName == TargetName(r.outputVarName.str, i) IN
        IF r.redirect = VAR_WRITE \/ varName \notin DOMAIN vs
        THEN saveLoop(SetVar(vs, varName, Entry(byteVal, byteVal, TRUE)), fs, r, bytesToSave, i + 1)
        ELSE LET sum == IAdd(vs[varName].cur, byteVal) IN
             IF sum = Raised THEN [variables |-> vs, files |-> fs, raised |-> TRUE]
             ELSE saveLoop(
                    SetVar(vs, varName,
                           Entry(sum,
                                 IF IsList(sum) /\ vs[varName].same THEN sum ELSE vs[varName].def,
                                 vs[varName].same)),
                    fs, r, bytesToSave, i + 1)
    ELSE saveLoop(vs, fs, r, bytesToSave, i + 1)

NoBytes == <<>>

\* log_output(command, output, bytesToSave, printOutput): r is the
\* redirection in force, hasBytes tells whether bytesToSave was passed.
log_output(vs, fs, r, output, hasBytes, bytesToSave, printOutput) ==
    LET niceOutput == niceOutputOf(output) IN
    IF r.redirect # NoRedirect THEN
        LET res == saveLoop(vs, fs, r, IF hasBytes THEN bytesToSave ELSE <<niceOutput>>, 0)
        IN  [variables |-> res.variables, files |-> res.files, printed |-> <<>>,
             raised |-> res.raised]
    ELSE [variables |-> vs, files |-> fs,
          printed |-> IF printOutput /\ niceOutput # PyStr("") /\ niceOutput # [shown |-> <<>>]
                      THEN <<niceOutput>> ELSE <<>>,
          raised |-> FALSE]

(***************************************************************************)
(* str(value), as used to show the content of a variable.                  *)
(***************************************************************************)
Ascii == " !\"#$%&'()*+,-./0123456789:;<=>?@ABCDEFGHIJKLMNOPQRSTUVWXYZ[\\]^_.abcdefghijklmnopqrstuvwxyz{|}~"
HexChars == "0123456789abcdef"
Hex2(n) == CharAt(HexChars, n \div 16) \o CharAt(HexChars, n % 16)
\* (the grave accent, 96, has no place in the table and is shown escaped)
ReprByte(n) ==
    IF n >= 32 /\ n <= 126 /\ n \notin {39, 92, 96} THEN CharAt(Ascii, n - 32)
    ELSE "\\x" \o Hex2(n)
RECURSIVE ReprBytes(_)
ReprBytes(b) ==
    IF b = <<>> THEN ""
    ELSE IF Len(b) = 1 THEN ReprByte(b[1])
    ELSE ReprBytes(SubSeq(b, 1, Len(b) \div 2)) \o ReprBytes(SubSeq(b, Len(b) \div 2 + 1, Len(b)))
RECURSIVE ReprChars(_, _)
ReprChars(c, first) ==
    IF c = "" THEN ""
    ELSE IF Len(c) = 1 THEN (IF first THEN "" ELSE ", ") \o "'" \o c \o "'"
    ELSE ReprChars(Slice(c, 0, Len(c) \div 2), first) \o ReprChars(From(c, Len(c) \div 2), FALSE)
StrOf(v) ==
    IF IsNone(v) THEN "None"
    ELSE IF IsInt(v) THEN IntStr(v.int)
    ELSE IF IsStr(v) THEN v.str
    ELSE IF IsBytes(v) THEN "b'" \o ReprBytes(v.bytes) \o "'"
    ELSE "[" \o JoinInts(v.list) \o ReprChars(v.chars, v.list = <<>>) \o "]"

(***************************************************************************)
(* The state of the console after __init__, and the pieces every handler   *)
(* shares.                                                                 *)
(***************************************************************************)
NoDocument == PyNone
IsDocument(d) == "numUpdates" \in DOMAIN d
Document(path, n) == [path |-> path, numUpdates |-> n]

vtKey == "COPY_HERE_YOUR_API_KEY"
readOnlyVariables == {"malformed_options", "header_file"}

InitVariables ==
    [n \in {"output_limit", "malformed_options", "header_file", "vt_key"} |->
        IF n = "output_limit" THEN Entry(PyInt(500), PyInt(500), TRUE)
        ELSE IF n = "malformed_options" THEN Entry(PyList(<<>>, ""), PyList(<<>>, ""), FALSE)
        ELSE IF n = "header_file" THEN Entry(PyNone, PyNone, TRUE)
        ELSE Entry(PyStr(vtKey), PyStr(vtKey), TRUE)]

\* The redirection left in force by the last parseArgs.
InForce ==
    [redirect |-> redirect, outputVarName |-> outputVarName, outputFileName |-> outputFileName]

NotParsedMessage ==
    "[!] Error: The command line arguments have not been parsed successfully"
MustOpenMessage == "[!] Error: You must open a file"

(***************************************************************************)
(* A handler is modelled by the outcomes it can have: the redirection it   *)
(* leaves, the variables and files it assigned, the outputs it makes in    *)
(* order (through log_output or printed directly), whether it ends by an   *)
(* exception, its return value, its calls of the core and the document it  *)
(* leaves.  Step then performs the outputs and ends the command.           *)
(***************************************************************************)
Redirection(r) ==
    [redirect |-> r.redirect, outputVarName |-> r.outputVarName,
     outputFileName |-> r.outputFileName]

\* self.log_output(command, output) under the redirection r.
Log(r, output) ==
    [log |-> TRUE, r |-> Redirection(r), output |-> output, hasBytes |-> FALSE,
     bytes |-> NoBytes, shown |-> PyNone, calls |-> <<>>]
\* self.log_output(command, output, bytesToSave)
LogBytes(r, output, bytesToSave) ==
    [log |-> TRUE, r |-> Redirection(r), output |-> output, hasBytes |-> TRUE,
     bytes |-> bytesToSave, shown |-> PyNone, calls |-> <<>>]
\* print(...) and the help_ methods write to the console only.
Direct(what) ==
    [log |-> FALSE, r |-> Redirection(InForce), output |-> PyNone, hasBytes |-> FALSE,
     bytes |-> NoBytes, shown |-> what, calls |-> <<>>]

Base(r) ==
    [r |-> Redirection(r), seen |-> r.redirect, variables |-> variables, files |-> files, outputs |-> <<>>,
     raises |-> FALSE, retval |-> "None", calls |-> <<>>, pdfFile |-> pdfFile,
     established |-> history.established]

\* log_output(command, message) and return retval
Reply(r, text, retval) ==
    [Base(r) EXCEPT !.outputs = <<Log(r, PyStr(text))>>, !.retval = retval]
\* the same after calls of the core
ReplyAfter(r, text, retval, calls) ==
    [Base(r) EXCEPT !.outputs = <<Log(r, PyStr(text))>>, !.retval = retval, !.calls = calls]
\* self.help_<cmd>() and return retval
Usage(r, cmd, retval) ==
    [Base(r) EXCEPT !.outputs = <<Direct([help |-> cmd])>>, !.retval = retval]
\* an exception leaves the handler
Raise(r, calls) == [Base(r) EXCEPT !.raises = TRUE, !.calls = calls]

\* The outputs of a handler in order, each after the calls of the core that
\* precede it; an output that raises ends the handler there.
RECURSIVE applyOutputs(_, _, _, _, _, _)
afterOutput(lo, outputs, i, shown, calls) ==
    IF lo.raised
    THEN [variables |-> lo.variables, files |-> lo.files, printed |-> shown \o lo.printed,
          raised |-> TRUE, calls |-> calls, r |-> outputs[i].r]
    ELSE applyOutputs(lo.variables, lo.files, outputs, i + 1, shown \o lo.printed, calls)
applyOutputs(vs, fs, outputs, i, shown, calls) ==
    IF i > Len(outputs)
    THEN [variables |-> vs, files |-> fs, printed |-> shown, raised |-> FALSE,
          calls |-> calls, r |-> Redirection(InForce)]
    ELSE IF ~outputs[i].log
    THEN applyOutputs(vs, fs, outputs, i + 1, Append(shown, outputs[i].shown),
                      calls \o outputs[i].calls)
    ELSE afterOutput(log_output(vs, fs, outputs[i].r, outputs[i].output, outputs[i].hasBytes,
                                outputs[i].bytes, TRUE),
                     outputs, i, shown, calls \o outputs[i].calls)

\* What the claims about command sequences remember in history: the values
\* the last accepted malformed_output established, whether a command line so
\* far carried a redirection to a variable, the number of commands, the
\* calls of log_output the last command had to make, and the value each
\* variable the user created was created with.
IsLogged(out) == out.log
Commit(cmd, argv, seen, o, done) ==
    /\ cmdLine' = [cmd |-> cmd, argv |-> argv]
    /\ redirect' = IF done.raised THEN done.r.redirect ELSE o.r.redirect
    /\ outputVarName' = IF done.raised THEN done.r.outputVarName ELSE o.r.outputVarName
    /\ outputFileName' = IF done.raised THEN done.r.outputFileName ELSE o.r.outputFileName
    /\ variables' = done.variables
    /\ files' = done.files
    /\ printed' = done.printed
    /\ ret' = IF done.raised \/ o.raises THEN "raised" ELSE o.retval
    \* cmdloop: stop = self.onecmd(line); a true value ends the loop, and
    \* postloop runs; an exception leaves cmdloop before postloop
    /\ leaving' = (leaving \/ (~(done.raised \/ o.raises) /\ o.retval = "True"))
    /\ coreCalls' = done.calls
    /\ pdfFile' = o.pdfFile
    /\ history' = [established |-> o.established,
                   varRedirect |-> history.varRedirect \/ seen \in {VAR_WRITE, VAR_ADD},
                   commands |-> history.commands + 1,
                   logged |-> SelectSeq(o.outputs, IsLogged),
                   first |-> [n \in DOMAIN done.variables \ DOMAIN InitVariables |->
                                IF n \in DOMAIN history.first THEN history.first[n]
                                ELSE done.variables[n].def]]
    /\ UNCHANGED <<build, env>>

Step(cmd, argv, o) ==
    Commit(cmd, argv, o.seen, o, applyOutputs(o.variables, o.files, o.outputs, 1, <<>>, o.calls))

(***************************************************************************)
(* set [$var_name $var_value]                                              *)
(***************************************************************************)
ReadOnlyMessage == "[!] Error: This is a READ ONLY variable"
IntegerMessage == "[!] Error: The value for this variable must be an integer"

setValue(p, varName, value) ==
    IF varName \in readOnlyVariables THEN Reply(p, ReadOnlyMessage, "False")
    ELSE IF varName = "output_limit" /\ ~isdigit(value) THEN Reply(p, IntegerMessage, "False")
    ELSE [Base(p) EXCEPT !.variables =
            SetVar(variables, varName,
                   IF varName \in DOMAIN variables
                   THEN Entry(IF varName = "output_limit" THEN PyInt(int(value))
                              ELSE PyStr(value),
                              variables[varName].def, FALSE)
                   ELSE Entry(PyStr(value), PyStr(value), TRUE))]

set(p) ==
    IF ~p.ok THEN Reply(p, NotParsedMessage, "False")
    ELSE IF Len(p.args) # 0 /\ Len(p.args) # 2 THEN Usage(p, "set", "False")
    ELSE IF Len(p.args) = 0
    THEN [Base(p) EXCEPT !.outputs =
            <<Direct([listing |-> [n \in DOMAIN variables |-> StrOf(variables[n].cur)]])>>]
    ELSE setValue(p, p.args[1], p.args[2])

do_set(argv) == Step("set", argv, set(parseArgs(argv)))

(***************************************************************************)
(* reset [$var_name]                                                       *)
(***************************************************************************)
NoVariableMessage == "[!] Error: The variable does not exist"

\* re.match("\[.*\]", s): s starts with "[" and a "]" follows.
LooksLikeList(s) == StartsWith(s, "[") /\ Find(s, "]") # -1

resetText(var, varContent) ==
    IF varContent # "None" /\ ~LooksLikeList(varContent)
    THEN var \o " = \"" \o varContent \o "\""
    ELSE var \o " = " \o varContent
resetMessage(var, cur) ==
    IF var = "output" /\ (cur = PyStr("file") \/ cur = PyStr("variable"))
    THEN var \o " = \"None\" (" \o StrOf(cur) \o ")"
    ELSE resetText(var, StrOf(cur))

\* self.variables[var][0] = self.variables[var][1]
restoredToCurrent(var) == Entry(variables[var].cur, variables[var].def, FALSE)
restored(var) == Entry(variables[var].def, variables[var].def, TRUE)

reset(p) ==
    IF ~p.ok THEN Reply(p, NotParsedMessage, "False")
    ELSE IF Len(p.args) = 0 THEN [Base(p) EXCEPT !.outputs = <<Direct([clearScreen |-> TRUE])>>]
    ELSE IF Len(p.args) = 1
    THEN IF p.args[1] \in DOMAIN variables
         THEN [Reply(p, resetMessage(p.args[1], restored(p.args[1]).cur), "None")
                 EXCEPT !.variables = SetVar(variables, p.args[1], restored(p.args[1]))]
         ELSE Reply(p, NoVariableMessage, "None")
    ELSE Usage(p, "reset", "None")

do_reset(argv) == Step("reset", argv, reset(parseArgs(argv)))

(***************************************************************************)
(* replace all $string1 $string2                                           *)
(* replace variable|file $name $string1 $string2                           *)
(***************************************************************************)
NoFileMessage == "[!] Error: The file does not exist"
ReplacedMessage == "[+] The string has been replaced correctly"
NotReplacedMessage == "[!] Error: The string has not been replaced"
StringNotFound == "String not found"

\* What the core's replace(string1, string2) answers: (status, error).
ReplaceOutcomes == {<<0, "">>, <<-1, StringNotFound>>, <<-1, "Not replaced">>}

replaceAll(p, string1, string2) ==
    IF pdfFile = NoDocument THEN {Reply(p, MustOpenMessage, "False")}
    \* a str held as document: str.replace answers with a str
    ELSE IF ~IsDocument(pdfFile) THEN {Reply(p, ReplacedMessage, "None")}
    ELSE {ReplyAfter(p, IF res[1] = -1
                        THEN (IF res[2] = StringNotFound THEN StringNotFound
                              ELSE NotReplacedMessage)
                        ELSE ReplacedMessage,
                     "None", <<[op |-> "replace", string1 |-> string1, string2 |-> string2]>>)
          : res \in ReplaceOutcomes}

replaceIn(p, srcType, src, string1, string2) ==
    IF srcType # "variable" /\ srcType # "file" THEN Usage(p, "replace", "False")
    ELSE IF srcType = "file" THEN
         IF src \notin DOMAIN files THEN Reply(p, NoFileMessage, "False")
         \* the file is read as bytes: bytes.find(str) raises
         ELSE Raise(p, <<>>)
    ELSE IF src \notin DOMAIN variables THEN Reply(p, NoVariableMessage, "None")
    \* only a str has find(str); None, a list and bytes raise
    ELSE IF ~IsStr(variables[src].cur) THEN Raise(p, <<>>)
    ELSE IF Find(variables[src].cur.str, string1) = -1 THEN Reply(p, StringNotFound, "None")
    ELSE [Reply(p, ReplacedMessage, "None") EXCEPT !.variables =
            SetVar(variables, src,
                   Entry(PyStr(Replace(variables[src].cur.str, string1, string2)),
                         variables[src].def, FALSE))]

replace(p) ==
    IF ~p.ok THEN {Reply(p, NotParsedMessage, "False")}
    ELSE IF Len(p.args) # 3 /\ Len(p.args) # 4 THEN {Usage(p, "replace", "False")}
    ELSE IF Len(p.args) = 3
    THEN IF p.args[1] # "all" THEN {Usage(p, "replace", "False")}
         ELSE replaceAll(p, p.args[2], p.args[3])
    ELSE {replaceIn(p, p.args[1], p.args[2], p.args[3], p.args[4])}

do_replace(argv) == \E o \in replace(parseArgs(argv)) : Step("replace", argv, o)

(***************************************************************************)
(* malformed_output [$option1 [$option2 ...] [$header_file]]               *)
(***************************************************************************)
EnabledMessage == "Malformed options successfully enabled"
\* The loop without the test for option 1 (all tricks) being enabled already.
RECURSIVE optionsLoopAfterAll(_, _, _, _, _)
optionsLoopAfterAll(args, i, malformedOptions, headerFile, fs) ==
    IF i > Len(args)
    THEN [rejected |-> FALSE, malformedOptions |-> malformedOptions, headerFile |-> headerFile]
    ELSE
    LET opt == args[i] IN
    IF isdigit(opt) THEN
        IF -1 < int(opt) /\ int(opt) < 7 THEN
            IF int(opt) = 0
            THEN [rejected |-> FALSE, malformedOptions |-> <<>>, headerFile |-> PyNone]
            ELSE IF \A k \in 1..Len(malformedOptions) :
                        malformedOptions[k] # int(opt)
                 THEN optionsLoopAfterAll(args, i + 1, Append(malformedOptions, int(opt)), headerFile, fs)
                 ELSE optionsLoopAfterAll(args, i + 1, malformedOptions, headerFile, fs)
        ELSE [rejected |-> TRUE, malformedOptions |-> malformedOptions, headerFile |-> headerFile]
    ELSE IF opt \in DOMAIN fs
         THEN [rejected |-> FALSE, malformedOptions |-> malformedOptions, headerFile |-> PyStr(opt)]
         ELSE [rejected |-> TRUE, malformedOptions |-> malformedOptions, headerFile |-> headerFile]

RECURSIVE optionsLoop(_, _, _, _, _)
optionsLoop(args, i, malformedOptions, headerFile, fs) ==
    IF i > Len(args)
    THEN [rejected |-> FALSE, malformedOptions |-> malformedOptions, headerFile |-> headerFile]
    ELSE
    LET opt == args[i] IN
    IF isdigit(opt) THEN
        IF -1 < int(opt) /\ int(opt) < 7 THEN
            IF int(opt) = 0
            THEN [rejected |-> FALSE, malformedOptions |-> <<>>, headerFile |-> PyNone]
            ELSE IF \A k \in 1..Len(malformedOptions) :
                        malformedOptions[k] # int(opt) /\ malformedOptions[k] # 1
                 THEN optionsLoop(args, i + 1, Append(malformedOptions, int(opt)), headerFile, fs)
                 ELSE optionsLoop(args, i + 1, malformedOptions, headerFile, fs)
        ELSE [rejected |-> TRUE, malformedOptions |-> malformedOptions, headerFile |-> headerFile]
    ELSE IF opt \in DOMAIN fs
         THEN [rejected |-> FALSE, malformedOptions |-> malformedOptions, headerFile |-> PyStr(opt)]
         ELSE [rejected |-> TRUE, malformedOptions |-> malformedOptions, headerFile |-> headerFile]

\* self.variables["malformed_options"] = [malformedOptions, malformedOptions]
\* self.variables["header_file"] = [headerFile, headerFile]
enableOnTop(p, res) ==
    LET options == PyList(variables["malformed_options"].cur.list \o res.malformedOptions, "")
        header == IF IsNone(res.headerFile) THEN variables["header_file"].cur ELSE res.headerFile
    IN
    IF res.rejected THEN Usage(p, "malformed_output", "False")
    ELSE [Reply(p, EnabledMessage, "None") EXCEPT
            !.variables =
                SetVar(SetVar(variables, "malformed_options", Entry(options, options, TRUE)),
                       "header_file", Entry(header, header, TRUE)),
            !.established = <<options, header>>]
enable(p, res) ==
    IF res.rejected THEN Usage(p, "malformed_output", "False")
    ELSE [Reply(p, EnabledMessage, "None") EXCEPT
            !.variables =
                SetVar(SetVar(variables, "malformed_options",
                              Entry(PyList(res.malformedOptions, ""),
                                    PyList(res.malformedOptions, ""), TRUE)),
                       "header_file", Entry(res.headerFile, res.headerFile, TRUE)),
            !.established = <<PyList(res.malformedOptions, ""), res.headerFile>>]

malformed_output(p) ==
    IF ~p.ok THEN Reply(p, NotParsedMessage, "False")
    ELSE IF Len(p.args) = 0
    THEN enable(p, [rejected |-> FALSE, malformedOptions |-> <<1>>, headerFile |-> PyNone])
    ELSE enable(p, optionsLoop(p.args, 1, <<>>, PyNone, files))

do_malformed_output(argv) == Step("malformed_output", argv, malformed_output(parseArgs(argv)))

(***************************************************************************)
(* save [$file_name]  and  save_version $version $file_name                *)
(***************************************************************************)
SavedMessage == "[+] File saved succesfully"
VersionSavedMessage == "[+] Version saved succesfully"
SavingFailedMessage == "[!] Error: Saving failed"
VersionMessage == "[!] Error: The version number is not valid"

\* The bytes the core writes for a document.
DocumentBytes == PyBytes(<<37, 80, 68, 70>>)

\* self.pdfFile.save(fileName, version, malformedOptions=..., headerFile=...)
\* and the message about its status.
SaveCall(fileName, version, status) ==
    [op |-> "save", fileName |-> fileName, version |-> version, status |-> status,
     malformedOptions |-> variables["malformed_options"].cur,
     headerFile |-> variables["header_file"].cur]

saveTo(p, fileName, version, status, savedMessage) ==
    [ReplyAfter(p, IF status = -1 THEN SavingFailedMessage ELSE savedMessage, "None",
                <<SaveCall(fileName, version, status)>>)
        EXCEPT !.files = IF status = 0 THEN FileWrite(files, fileName, DocumentBytes) ELSE files]

save(p) ==
    IF ~p.ok THEN {Reply(p, NotParsedMessage, "False")}
    ELSE IF Len(p.args) > 1 THEN {Usage(p, "save", "None")}
    ELSE IF ~IsDocument(pdfFile) THEN {Raise(p, <<>>)}
    ELSE {saveTo(p, IF Len(p.args) = 0 THEN pdfFile.path ELSE p.args[1], PyNone, status,
                 SavedMessage) : status \in {0, -1}}

do_save(argv) ==
    IF pdfFile = NoDocument THEN Step("save", argv, Reply(InForce, MustOpenMessage, "False"))
    ELSE \E o \in save(parseArgs(argv)) : Step("save", argv, o)

\* The comparison off by one: the first version beyond the updates passes.
versionBeyondNext(version, document) == version > document.numUpdates + 1

\* version > self.pdfFile.getNumUpdates()
versionNotValid(version, document) == version > document.numUpdates

save_version(p) ==
    IF ~p.ok THEN {Reply(p, NotParsedMessage, "False")}
    ELSE IF Len(p.args) # 2 THEN {Usage(p, "save_version", "None")}
    ELSE IF ~isdigit(p.args[1]) THEN {Usage(p, "save_version", "False")}
    ELSE IF ~IsDocument(pdfFile) THEN {Raise(p, <<>>)}
    ELSE IF int(p.args[1]) < 0 \/ versionNotValid(int(p.args[1]), pdfFile)
    THEN {Reply(p, VersionMessage, "False")}
    ELSE {saveTo(p, p.args[2], PyInt(int(p.args[1])), status, VersionSavedMessage)
          : status \in {0, -1}}

do_save_version(argv) ==
    IF pdfFile = NoDocument
    THEN Step("save_version", argv, Reply(InForce, MustOpenMessage, "False"))
    ELSE \E o \in save_version(parseArgs(argv)) : Step("save_version", argv, o)

(***************************************************************************)
(* info [$object_id|xref|trailer [$version]]                               *)
(***************************************************************************)
ObjectNotFound == "[!] Error: Object not found"
XrefNotFound == "[!] Error: xref section not found"
TrailerNotFound == "[!] Error: Trailer not found"

\* The core calls of a handler are recorded with their arguments.
Call(op, id, version) == [op |-> op, id |-> id, version |-> version]
NoVersion == -1
VersionOf(args, k) == IF Len(args) >= k THEN int(args[k]) ELSE NoVersion

\* info without arguments: the statistics of the document held.
infoStats(r, document) ==
    IF IsDocument(document)
    THEN <<[Log(r, PyStr("File: " \o document.path))
              EXCEPT !.calls = <<Call("getStats", "", NoVersion)>>]>>
    ELSE <<>>

\* The lookup of info and the statistics or the error it shows.
infoLookup(p, id, version, found) ==
    IF id = "xref"
    THEN ReplyAfter(p, IF found THEN "Offset: 0" ELSE XrefNotFound,
                    IF found THEN "None" ELSE "False", <<Call("getXrefSection", id, version)>>)
    ELSE IF id = "trailer"
    THEN ReplyAfter(p, IF found THEN "Offset: 0" ELSE TrailerNotFound,
                    IF found THEN "None" ELSE "False", <<Call("getTrailer", id, version)>>)
    ELSE ReplyAfter(p, IF found THEN "Offset: 0" ELSE ObjectNotFound,
                    IF found THEN "None" ELSE "False", <<Call("getObject", id, version)>>)

info(p) ==
    IF ~p.ok THEN {Reply(p, NotParsedMessage, "False")}
    ELSE IF Len(p.args) = 0
    THEN {[Base(p) EXCEPT !.outputs = infoStats(p, pdfFile), !.retval = "False",
                          !.raises = ~IsDocument(pdfFile)]}
    ELSE IF Len(p.args) > 2 THEN {Usage(p, "info", "False")}
    ELSE IF (~isdigit(p.args[1]) /\ p.args[1] # "trailer" /\ p.args[1] # "xref")
            \/ (Len(p.args) = 2 /\ ~isdigit(p.args[2]))
    THEN {Usage(p, "info", "False")}
    ELSE IF ~IsDocument(pdfFile) THEN {Raise(p, <<>>)}
    ELSE IF Len(p.args) = 2 /\ versionNotValid(int(p.args[2]), pdfFile)
    THEN {Reply(p, VersionMessage, "False")}
    ELSE {infoLookup(p, p.args[1], VersionOf(p.args, 2), found) : found \in BOOLEAN}

do_info(argv) ==
    IF pdfFile = NoDocument THEN Step("info", argv, Reply(InForce, MustOpenMessage, "False"))
    ELSE \E o \in info(parseArgs(argv)) : Step("info", argv, o)

(***************************************************************************)
(* open [-fl] $file_name                                                   *)
(***************************************************************************)
OpenedMessage == "[+] File opened succesfully"
OpeningFailedMessage == "[!] Error: Opening document failed"
PyV8Warning == "Warning: PyV8 is not installed \n"

MaxUpdates == 1

\* What PDFParser.parse hands back for an existing file: the pair of a
\* status and the document, or a failure result, either the bare -1 that
\* do_open compares with or the (-1, error) pair of the core's convention.
BadHeader == "Bad PDF header"
ParseOutcomes(fileName) ==
    {[status |-> 0, value |-> Document(fileName, n)] : n \in 0..MaxUpdates}
    \cup {[bare |-> -1], [status |-> -1, value |-> PyStr(BadHeader)]}
ParseFailed(outcome) == "bare" \in DOMAIN outcome \/ outcome.status = -1

openOptions == {"f", "l", "fl", "lf"}

\* From the call of the parser on: ret != -1 holds of every pair; the
\* document is ret[1]; do_info("") runs when a document is held and resets
\* the redirection.
opened(p, fileName, outcome, document) ==
    [Base(p) EXCEPT
        !.pdfFile = document,
        !.outputs = <<Log(p, PyStr(IF "bare" \notin DOMAIN outcome THEN OpenedMessage
                                   ELSE OpeningFailedMessage))>>
                    \o (IF env.JS_MODULE THEN <<>> ELSE <<Direct(PyStr(PyV8Warning))>>)
                    \o infoStats(Parsed(<<>>, NoRedirect, PyNone, PyNone), document),
        !.raises = document # NoDocument /\ ~IsDocument(document),
        !.r = IF document # NoDocument
              THEN Redirection(Parsed(<<>>, NoRedirect, PyNone, PyNone)) ELSE Redirection(p),
        !.calls = <<[op |-> "parse", id |-> fileName, version |-> NoVersion,
                     outcome |-> outcome]>>]

openFile(p, fileName) ==
    IF fileName \notin DOMAIN files THEN {Reply(p, NoFileMessage, "False")}
    ELSE {opened(p, fileName, outcome,
                 IF "bare" \notin DOMAIN outcome THEN outcome.value ELSE NoDocument)
          : outcome \in ParseOutcomes(fileName)}

open(p) ==
    IF ~p.ok THEN {Reply(p, NotParsedMessage, "False")}
    ELSE IF Len(p.args) = 1 THEN openFile(p, p.args[1])
    ELSE IF Len(p.args) # 2 THEN {Usage(p, "open", "False")}
    ELSE IF Len(p.args[1]) < 2 \/ Len(p.args[1]) > 3 \/ CharAt(p.args[1], 0) # "-"
            \/ From(p.args[1], 1) \notin openOptions
    THEN {Usage(p, "open", "False")}
    ELSE openFile(p, p.args[2])

do_open(argv) == \E o \in open(parseArgs(argv)) : Step("open", argv, o)

(***************************************************************************)
(* The console after construction, in a directory holding a document, a   *)
(* header file and a file whose name is a number.                          *)
(***************************************************************************)
InitFiles ==
    [n \in {"a.pdf", "hdr", "2"} |-> IF n = "a.pdf" THEN DocumentBytes ELSE PyBytes(<<72>>)]

Idle == [phase |-> "idle"]

InitConsole ==
    /\ pdfFile = NoDocument
    /\ variables = InitVariables
    /\ redirect = NoRedirect
    /\ outputVarName = PyNone
    /\ outputFileName = PyNone
    /\ files = InitFiles
    /\ printed = <<>>
    /\ coreCalls = <<>>
    /\ ret = "None"
    /\ history = [established |-> <<PyList(<<>>, ""), PyNone>>, varRedirect |-> FALSE,
                  commands |-> 0, logged |-> <<>>, first |-> <<>>]
    /\ build = Idle
    /\ leaving = FALSE

(***************************************************************************)
(* The console variables: set, reset, replace, malformed_output, save.     *)
(***************************************************************************)
MaxCommands == 4

SetLines == {"", "x hdr", "header_file x", "output_limit zz", "x 1 $> header_file"}
ResetLines == {"header_file", "nope", "x $>> malformed_options"}
ReplaceLines == {"variable header_file hdr x", "variable x hdr a", "all a b"}
MalformedLines == {"", "2 3", "6 hdr", "7", "2 $> header_file"}
SaveLines == {"", "out.pdf"}
SaveVersionLines == {"0 out.pdf", "5 out.pdf"}
OpenLines == {"a.pdf", "nope"}

\* No command line has been read yet.
NoLine == [cmd |-> "", argv |-> ""]

InitVariablesSpec ==
    InitConsole /\ cmdLine = NoLine /\ env = [JS_MODULE |-> TRUE, use_rawinput |-> TRUE]

\* The sessions explored are those of at most n commands.
Session(n) == history.commands < n

NextVariables ==
    \/ \E argv \in SetLines : Session(MaxCommands) /\ do_set(argv)
    \/ \E argv \in ResetLines : Session(MaxCommands) /\ do_reset(argv)
    \/ \E argv \in ReplaceLines : Session(MaxCommands) /\ do_replace(argv)
    \/ \E argv \in MalformedLines : Session(MaxCommands) /\ do_malformed_output(argv)
    \/ \E argv \in SaveLines : Session(MaxCommands) /\ do_save(argv)
    \/ \E argv \in SaveVersionLines : Session(MaxCommands) /\ do_save_version(argv)
    \/ \E argv \in OpenLines : Session(MaxCommands) /\ do_open(argv)

SpecVariables == InitVariablesSpec /\ [][NextVariables]_vars

(***************************************************************************)
(* C6.  malformed_options and header_file are read-only for the user:      *)
(* their values change only as the effect of a malformed_output command;   *)
(* set, reset, replace and output redirections never change them.          *)
(***************************************************************************)
ReadOnlyValues(vs) == <<vs["malformed_options"].cur, vs["header_file"].cur>>

C6_ReadOnlyVariables ==
    [][cmdLine'.cmd # "malformed_output"
       => ReadOnlyValues(variables') = ReadOnlyValues(variables)]_vars

(***************************************************************************)
(* C8.  In a command sequence without variable redirection, every save     *)
(* and save_version call passes to the core's save the malformed_options   *)
(* list and the header_file established by the most recent accepted        *)
(* malformed_output (the empty list and None when there was none).         *)
(***************************************************************************)
C8_SavePassesEstablished ==
    (cmdLine.cmd \in {"save", "save_version"} /\ coreCalls # <<>> /\ ~history.varRedirect)
    => <<coreCalls[1].malformedOptions, coreCalls[1].headerFile>> = history.established

(***************************************************************************)
(* malformed_output on every list of at most MaxOptions option numbers.    *)
(***************************************************************************)
MaxOptions == 3

OptionDigits == {"1", "2", "3", "4", "5", "6"}
RECURSIVE OptionLines(_)
OptionLines(n) ==
    IF n = 1 THEN OptionDigits
    ELSE LET shorter == OptionLines(n - 1)
         IN  shorter \cup {l \o " " \o d : l \in shorter, d \in OptionDigits}

\* The command line is read (cmd is empty until it is dispatched), then
\* the handler runs on it.
InitOptions ==
    /\ InitConsole
    /\ env = [JS_MODULE |-> TRUE, use_rawinput |-> TRUE]
    /\ cmdLine \in {[cmd |-> "", argv |-> argv] : argv \in OptionLines(MaxOptions)}
NextOptions == cmdLine.cmd = "" /\ do_malformed_output(cmdLine.argv)
SpecOptions == InitOptions /\ [][NextOptions]_vars

(***************************************************************************)
(* C7.  After a malformed_output command whose arguments are all option    *)
(* numbers in 1..6 the command is accepted and malformed_options is a      *)
(* list without duplicates, of values in 1..6, that holds every requested  *)
(* option except those requested after option 1 in the same command.       *)
(***************************************************************************)
C7_OptionsCombine ==
    LET args == parseArgs(cmdLine.argv).args
        list == variables["malformed_options"].cur.list
        BeforeAll(i) == \A j \in 1..(i - 1) : args[j] # "1"
    IN  (cmdLine.cmd = "malformed_output" /\ args # <<>>
         /\ \A i \in 1..Len(args) : args[i] \in OptionDigits)
        => /\ ret = "None"
           /\ \A i, j \in 1..Len(list) : list[i] = list[j] => i = j
           /\ \A i \in 1..Len(list) : list[i] \in 1..6
           /\ \A i \in 1..Len(args) : BeforeAll(i) => \E k \in 1..Len(list) : list[k] = int(args[i])
           /\ \A k \in 1..Len(list) :
                \E i \in 1..Len(args) : BeforeAll(i) /\ list[k] = int(args[i])

C7_Witness ==
    /\ cmdLine = [cmd |-> "malformed_output", argv |-> "2 1 3"]
    /\ variables["malformed_options"].cur = PyList(<<2, 1>>, "")
    /\ ret = "None"

(***************************************************************************)
(* The commands on a document.  What a handler does with the object, the   *)
(* trailer or the section it looked up depends on what the core holds      *)
(* there: each ending the code has after a lookup is an outcome.           *)
(***************************************************************************)
\* log_output(command, message), help_<cmd>() and return retval
ReplyUsage(r, text, cmd, retval) ==
    [Base(r) EXCEPT !.outputs = <<Log(r, PyStr(text)), Direct([help |-> cmd])>>,
                    !.retval = retval]

NotFoundMessage(op) ==
    IF op = "getXrefSection" THEN XrefNotFound
    ELSE IF op = "getTrailer" THEN TrailerNotFound
    ELSE ObjectNotFound

\* The endings after the calls made: one of the errors, or the output.
Endings(p, calls, errors, output) ==
    {ReplyAfter(p, e, "False", calls) : e \in errors}
    \cup {ReplyAfter(p, output, "None", calls)}

\* A lookup in the core, which finds nothing or something; in the latter
\* case the handler ends by one of errors, by one of laterErrors after the
\* calls in more, or by its output after them.
Lookup(p, op, id, version, errors, more, laterErrors, output) ==
    {ReplyAfter(p, NotFoundMessage(op), "False", <<Call(op, id, version)>>)}
    \cup Endings(p, <<Call(op, id, version)>>, errors, output)
    \cup Endings(p, <<Call(op, id, version)>> \o more, laterErrors, output)

\* Any method of self.pdfFile raises when no document is held there.
OnDocument(p, outcomes) == IF IsDocument(pdfFile) THEN outcomes ELSE {Raise(p, <<>>)}

\* version is not None and version > self.pdfFile.getNumUpdates()
Beyond(args, k) == Len(args) >= k /\ versionNotValid(int(args[k]), pdfFile)

(***************************************************************************)
(* changelog [$version]                                                    *)
(***************************************************************************)
NoChangesMessage == "[!] No changes"

changelog(p) ==
    IF ~p.ok THEN {Reply(p, NotParsedMessage, "False")}
    ELSE IF Len(p.args) > 1 THEN {Usage(p, "changelog", "False")}
    ELSE IF Len(p.args) = 1 /\ ~isdigit(p.args[1]) THEN {Usage(p, "changelog", "False")}
    ELSE IF ~IsDocument(pdfFile) THEN {Raise(p, <<>>)}
    ELSE IF Beyond(p.args, 1) THEN {Reply(p, VersionMessage, "False")}
    ELSE IF VersionOf(p.args, 1) = 0 \/ (Len(p.args) = 0 /\ pdfFile.numUpdates = 0)
    THEN {Reply(p, NoChangesMessage, "False")}
    ELSE {ReplyAfter(p, "Original document information: ", "None",
                     <<Call("getBasicMetadata", "", 0),
                       Call("getChangeLog", "", VersionOf(p.args, 1))>>)}

do_changelog(argv) ==
    IF pdfFile = NoDocument
    THEN Step("changelog", argv, Reply(InForce, MustOpenMessage, "False"))
    ELSE \E o \in changelog(parseArgs(argv)) : Step("changelog", argv, o)

(***************************************************************************)
(* encode_strings [$object_id|trailer [$version]]                          *)
(***************************************************************************)
ModificationProblems == "[!] Error: There were some problems in the modification process"
CannotBeEncoded == "[!] Error: This type of object cannot be encoded"
EncodeFailed == "[!] Error: encoding failed"

encode_strings(p) ==
    IF ~p.ok THEN {Reply(p, NotParsedMessage, "False")}
    ELSE IF Len(p.args) = 0
    THEN OnDocument(p, Endings(p, <<Call("encodeChars", "", NoVersion)>>, {EncodeFailed},
                               "[+] File encoded successfully"))
    ELSE IF Len(p.args) > 2 THEN {Usage(p, "encode_strings", "False")}
    ELSE IF (~isdigit(p.args[1]) /\ p.args[1] # "trailer")
            \/ (Len(p.args) = 2 /\ ~isdigit(p.args[2]))
    THEN {Usage(p, "encode_strings", "False")}
    ELSE IF ~IsDocument(pdfFile) THEN {Raise(p, <<>>)}
    ELSE IF Beyond(p.args, 2) THEN {Reply(p, VersionMessage, "False")}
    ELSE IF p.args[1] = "trailer"
    THEN Lookup(p, "getTrailer", "trailer", VersionOf(p.args, 2), {},
                <<Call("setTrailer", "trailer", VersionOf(p.args, 2))>>,
                {ModificationProblems}, "Trailer encoded successfully")
    ELSE Lookup(p, "getObject", p.args[1], VersionOf(p.args, 2),
                {CannotBeEncoded, EncodeFailed},
                <<Call("setObject", p.args[1], VersionOf(p.args, 2))>>,
                {ModificationProblems}, "[+] Object encoded successfully")

do_encode_strings(argv) ==
    IF pdfFile = NoDocument
    THEN Step("encode_strings", argv, Reply(InForce, MustOpenMessage, "False"))
    ELSE \E o \in encode_strings(parseArgs(argv)) : Step("encode_strings", argv, o)

(***************************************************************************)
(* errors [$object_id|xref|trailer [$version]]                             *)
(***************************************************************************)
NoErrorsMessage == "[+] No errors"

errorsOf(p, id, version) ==
    Lookup(p, IF id = "xref" THEN "getXrefSection"
              ELSE IF id = "trailer" THEN "getTrailer" ELSE "getObject",
           id, version, {}, <<>>, {}, NoErrorsMessage)
    \cup {ReplyAfter(p, "Error parsing object (1)", "None",
                     <<Call(IF id = "xref" THEN "getXrefSection"
                            ELSE IF id = "trailer" THEN "getTrailer" ELSE "getObject",
                            id, version)>>)}

errors(p) ==
    IF ~p.ok THEN {Reply(p, NotParsedMessage, "False")}
    ELSE IF Len(p.args) = 0
    THEN OnDocument(p, {ReplyAfter(p, text, "False", <<Call("getErrors", "", NoVersion)>>)
                        : text \in {NoErrorsMessage, "Error parsing object"}})
    ELSE IF Len(p.args) > 2 THEN {Usage(p, "errors", "False")}
    ELSE IF (~isdigit(p.args[1]) /\ p.args[1] # "trailer" /\ p.args[1] # "xref")
            \/ (Len(p.args) = 2 /\ ~isdigit(p.args[2]))
    THEN {Usage(p, "errors", "False")}
    ELSE IF ~IsDocument(pdfFile) THEN {Raise(p, <<>>)}
    ELSE IF Beyond(p.args, 2) THEN {Reply(p, VersionMessage, "False")}
    ELSE errorsOf(p, p.args[1], VersionOf(p.args, 2))

do_errors(argv) ==
    IF pdfFile = NoDocument THEN Step("errors", argv, Reply(InForce, MustOpenMessage, "False"))
    ELSE \E o \in errors(parseArgs(argv)) : Step("errors", argv, o)

(***************************************************************************)
(* extract uri|js [$version]                                               *)
(***************************************************************************)
extractTypes == {"uri", "js"}

extract(p) ==
    \* if not args: no arguments either
    IF ~p.ok \/ Len(p.args) = 0 THEN {ReplyUsage(p, NotParsedMessage, "extract", "False")}
    ELSE IF Len(p.args) > 2 THEN {Usage(p, "extract", "False")}
    ELSE IF p.args[1] \notin extractTypes THEN {Usage(p, "extract", "False")}
    \* int(version) raises on a version that is no number
    ELSE IF Len(p.args) = 2 /\ ~isdigit(p.args[2]) THEN {Raise(p, <<>>)}
    ELSE IF ~IsDocument(pdfFile) THEN {Raise(p, <<>>)}
    ELSE IF Beyond(p.args, 2) THEN {Reply(p, VersionMessage, "False")}
    ELSE {ReplyAfter(p, text, "None",
                     <<Call(IF p.args[1] = "uri" THEN "getURIs" ELSE "getJavascriptCode",
                            "", VersionOf(p.args, 2))>>)
          : text \in {"", "http://example.com 1"}}

do_extract(argv) ==
    IF pdfFile = NoDocument THEN Step("extract", argv, Reply(InForce, MustOpenMessage, "False"))
    ELSE \E o \in extract(parseArgs(argv)) : Step("extract", argv, o)

(***************************************************************************)
(* js_code, js_analyse, js_beautify, js_eval, js_jjdecode                  *)
(***************************************************************************)
JSNotFound == "[!] Error: Javascript code not found in this object"
PyV8Missing == "[!] Error: PyV8 is not installed"
VariableMissing == "[!] Error: The variable does not exist"
FileMissing == "[!] Error: The file does not exist"
TargetNotFound == "[!] Error: Target not found"
NotJavascript(what) == "[!] Error: The " \o what \o " does not contain Javascript code"
MayNotContain(cmd) ==
    "[!] Warning: " \o (IF cmd = "js_analyse" THEN "The" ELSE "the")
        \o " object may not contain Javascript code... " \o newLine

\* The last log_output of a handler and the value it returns.
Final(text, retval) == [text |-> text, retval |-> retval, hasBytes |-> FALSE, bytes |-> NoBytes]
FinalBytes(text, bytesToSave) ==
    [text |-> text, retval |-> "None", hasBytes |-> TRUE, bytes |-> bytesToSave]

Finish(p, cmd, calls, warned, final) ==
    [Base(p) EXCEPT
        !.outputs = (IF warned THEN <<Direct([warning |-> MayNotContain(cmd)])>> ELSE <<>>)
                    \o <<IF final.hasBytes
                         THEN LogBytes(p, PyStr(final.text), final.bytes)
                         ELSE Log(p, PyStr(final.text))>>,
        !.retval = final.retval,
        !.calls = calls]

js_code(p) ==
    IF ~p.ok THEN {Reply(p, NotParsedMessage, "False")}
    ELSE IF Len(p.args) \notin {1, 2} THEN {Usage(p, "js_code", "False")}
    ELSE IF ~isdigit(p.args[1]) \/ (Len(p.args) = 2 /\ ~isdigit(p.args[2]))
    THEN {Usage(p, "js_code", "False")}
    ELSE IF ~IsDocument(pdfFile) THEN {Raise(p, <<>>)}
    ELSE IF Beyond(p.args, 2) THEN {Reply(p, VersionMessage, "False")}
    ELSE {ReplyAfter(p, ObjectNotFound, "False",
                     <<Call("getObject", p.args[1], VersionOf(p.args, 2))>>)}
         \cup {ReplyAfter(p, text, "None",
                          <<Call("getObject", p.args[1], VersionOf(p.args, 2))>>)
               : text \in {JSNotFound, "", newLine \o "app.alert(1)" \o newLine}}

do_js_code(argv) ==
    IF pdfFile = NoDocument THEN Step("js_code", argv, Reply(InForce, MustOpenMessage, "False"))
    ELSE \E o \in js_code(parseArgs(argv)) : Step("js_code", argv, o)

\* The content that is not known to be Javascript: the user is asked when
\* the console is interactive (the answer n ends the command), and warned
\* otherwise.
jsContent(p, cmd, what, calls, finals) ==
    {Finish(p, cmd, calls, FALSE, f) : f \in finals}
    \cup (IF env.use_rawinput
          THEN {ReplyAfter(p, NotJavascript(what), "False", calls)}
          ELSE {Finish(p, cmd, calls, TRUE, f) : f \in finals})

\* An object without Javascript code gives its stream, its /JS element or
\* its value, or the target is not found.
jsObject(p, cmd, id, version, finals) ==
    {ReplyAfter(p, ObjectNotFound, "False", <<Call("getObject", id, version)>>)}
    \cup jsContent(p, cmd, "object", <<Call("getObject", id, version)>>, finals)
    \cup {[ReplyAfter(p, TargetNotFound, "False", <<Call("getObject", id, version)>>)
            EXCEPT !.outputs = (IF env.use_rawinput THEN <<>>
                                ELSE <<Direct([warning |-> MayNotContain(cmd)])>>) \o @]}

jsValidTypes == {"variable", "file", "object", "string"}

\* The part the four commands share: the source of the Javascript code.
jsSource(p, cmd, finals) ==
    IF ~p.ok THEN {Reply(p, NotParsedMessage, "False")}
    ELSE IF ~(Len(p.args) = 2 \/ (Len(p.args) = 3 /\ p.args[1] = "object"))
    THEN {Usage(p, cmd, "False")}
    ELSE IF p.args[1] \notin jsValidTypes THEN {Usage(p, cmd, "False")}
    ELSE IF p.args[1] = "variable"
    THEN IF p.args[2] \notin DOMAIN variables THEN {Reply(p, VariableMissing, "False")}
         ELSE jsContent(p, cmd, "variable", <<>>, finals)
    ELSE IF p.args[1] = "file"
    THEN IF p.args[2] \notin DOMAIN files THEN {Reply(p, FileMissing, "False")}
         ELSE jsContent(p, cmd, "file", <<>>, finals)
    ELSE IF p.args[1] = "string" THEN {Finish(p, cmd, <<>>, FALSE, f) : f \in finals}
    ELSE IF pdfFile = NoDocument THEN {Reply(p, MustOpenMessage, "False")}
    ELSE IF ~isdigit(p.args[2]) \/ (Len(p.args) = 3 /\ ~isdigit(p.args[3]))
    THEN {Usage(p, cmd, "False")}
    ELSE IF ~IsDocument(pdfFile) THEN {Raise(p, <<>>)}
    ELSE IF Beyond(p.args, 3) THEN {Reply(p, VersionMessage, "False")}
    ELSE jsObject(p, cmd, p.args[2], VersionOf(p.args, 3), finals)

js_analyse(p) ==
    jsSource(p, "js_analyse",
             {FinalBytes(newLine \o "Javascript code: " \o newLine, unescapedBytes)
              : unescapedBytes \in {<<>>, <<PyBytes(<<144>>)>>,
                                    <<PyBytes(<<144>>), PyBytes(<<65>>)>>}})

do_js_analyse(argv) ==
    IF ~env.JS_MODULE THEN Step("js_analyse", argv, Reply(InForce, PyV8Missing, "False"))
    ELSE \E o \in js_analyse(parseArgs(argv)) : Step("js_analyse", argv, o)

js_beautify(p) == jsSource(p, "js_beautify", {Final("var a = 1;", "None")})

do_js_beautify(argv) == \E o \in js_beautify(parseArgs(argv)) : Step("js_beautify", argv, o)

EvaluatedMessage == "The Javascript code has been evaluated successfully"

js_eval(p) ==
    jsSource(p, "js_eval", {Final(EvaluatedMessage, "None"), Final("var a = 1;", "None"),
                            Final("[!] Error: ReferenceError", "None")})

do_js_eval(argv) ==
    IF ~env.JS_MODULE THEN Step("js_eval", argv, Reply(InForce, PyV8Missing, "False"))
    ELSE \E o \in js_eval(parseArgs(argv)) : Step("js_eval", argv, o)

js_jjdecode(p) ==
    jsSource(p, "js_jjdecode", {Final("[!] Error: No JJEncoded", "False"),
                                Final("alert(1)", "None")})

do_js_jjdecode(argv) == \E o \in js_jjdecode(parseArgs(argv)) : Step("js_jjdecode", argv, o)

(***************************************************************************)
(* metadata, modify, object, offsets, rawobject, rawstream, references     *)
(***************************************************************************)
NoMetadata == "[!] No metadata found"

metadata(p) ==
    IF ~p.ok THEN {Reply(p, NotParsedMessage, "False")}
    ELSE IF Len(p.args) > 1 THEN {Usage(p, "metadata", "False")}
    ELSE IF Len(p.args) = 1 /\ ~isdigit(p.args[1]) THEN {Usage(p, "metadata", "False")}
    ELSE IF ~IsDocument(pdfFile) THEN {Raise(p, <<>>)}
    ELSE IF Beyond(p.args, 1) THEN {Reply(p, VersionMessage, "False")}
    ELSE Endings(p, <<Call("getMetadata", "", VersionOf(p.args, 1))>>, {NoMetadata},
                 "Info Object in version 0: ")

do_metadata(argv) ==
    IF pdfFile = NoDocument THEN Step("metadata", argv, Reply(InForce, MustOpenMessage, "False"))
    ELSE \E o \in metadata(parseArgs(argv)) : Step("metadata", argv, o)

validModifyTypes == {"object", "stream"}
NotModified == "[!] Error: The object has not been modified"
NotAStream == "[!] Error: The specified object is not an stream object"
BatchNeedsFile ==
    "[!] Error: in batch mode you must specify a file storing the stream content"
ModifiedMessage == "[+] Object modified successfully"
NoSuchFile(name) == "[!] Error: The file " \o Quote2 \o name \o Quote2 \o " does not exist"

\* The arguments of modify: a third argument that names a file is the
\* content file and no version.
modifyVersion(args) ==
    IF Len(args) = 3 /\ args[3] \notin DOMAIN files THEN <<args[3]>>
    ELSE IF Len(args) = 4 THEN <<args[3]>>
    ELSE <<>>

modifyFile(args) ==
    IF Len(args) = 3 /\ args[3] \in DOMAIN files THEN <<args[3]>>
    ELSE IF Len(args) = 4 THEN <<args[4]>>
    ELSE <<>>

\* After the object was found: self.modifyObject (whose steps are the
\* object construction below) or the new stream content, then setObject.
modifyFound(p, elementType, id, version, contentFile) ==
    LET found == <<Call("getObject", id, version)>> IN
    (IF elementType = "object" THEN {ReplyAfter(p, NotModified, "False", found)}
     ELSE {ReplyAfter(p, NotAStream, "False", found)}
          \cup (IF contentFile = <<>> /\ ~env.use_rawinput
                THEN {ReplyAfter(p, BatchNeedsFile, "False", found)} ELSE {}))
    \cup (IF elementType = "stream" /\ contentFile = <<>> /\ ~env.use_rawinput THEN {}
          ELSE {ReplyAfter(p, text, "None", found \o <<Call("setObject", id, version)>>)
                : text \in {NotModified, ModifiedMessage}})

modify(p) ==
    IF ~p.ok THEN {Reply(p, NotParsedMessage, "False")}
    ELSE IF Len(p.args) < 2 THEN {Usage(p, "modify", "False")}
    ELSE IF p.args[1] \notin validModifyTypes THEN {Usage(p, "modify", "False")}
    ELSE IF Len(p.args) = 4 /\ p.args[4] \notin DOMAIN files
    THEN {Reply(p, NoSuchFile(p.args[4]), "False")}
    ELSE IF Len(p.args) > 4 THEN {Usage(p, "modify", "False")}
    ELSE LET version == modifyVersion(p.args) IN
    IF (~isdigit(p.args[2]) /\ p.args[2] \notin {"trailer", "xref"})
       \/ (version # <<>> /\ ~isdigit(version[1]))
    THEN {Usage(p, "modify", "False")}
    \* no test of self.pdfFile: its methods raise when no document is open
    ELSE IF version # <<>> /\ ~IsDocument(pdfFile) THEN {Raise(p, <<>>)}
    ELSE IF Beyond(version, 1) THEN {Reply(p, VersionMessage, "False")}
    \* int(id) raises on trailer and xref
    ELSE IF ~isdigit(p.args[2]) \/ ~IsDocument(pdfFile) THEN {Raise(p, <<>>)}
    ELSE {ReplyAfter(p, ObjectNotFound, "False",
                     <<Call("getObject", p.args[2], VersionOf(version, 1))>>)}
         \cup modifyFound(p, p.args[1], p.args[2], VersionOf(version, 1),
                          modifyFile(p.args))

do_modify(argv) == \E o \in modify(parseArgs(argv)) : Step("modify", argv, o)

object(p) ==
    IF ~p.ok THEN {Reply(p, NotParsedMessage, "False")}
    ELSE IF Len(p.args) \notin {1, 2} THEN {Usage(p, "object", "False")}
    ELSE IF ~isdigit(p.args[1]) \/ (Len(p.args) = 2 /\ ~isdigit(p.args[2]))
    THEN {Usage(p, "object", "False")}
    ELSE IF ~IsDocument(pdfFile) THEN {Raise(p, <<>>)}
    ELSE IF Beyond(p.args, 2) THEN {Reply(p, VersionMessage, "False")}
    ELSE Lookup(p, "getObject", p.args[1], VersionOf(p.args, 2), {}, <<>>, {},
                "<< /Type /Catalog >>")

do_object(argv) ==
    IF pdfFile = NoDocument THEN Step("object", argv, Reply(InForce, MustOpenMessage, "False"))
    ELSE \E o \in object(parseArgs(argv)) : Step("object", argv, o)

offsets(p) ==
    IF ~p.ok THEN {Reply(p, NotParsedMessage, "False")}
    ELSE IF Len(p.args) > 1 THEN {Usage(p, "offsets", "False")}
    ELSE IF Len(p.args) = 1 /\ ~isdigit(p.args[1]) THEN {Usage(p, "offsets", "False")}
    ELSE IF ~IsDocument(pdfFile) THEN {Raise(p, <<>>)}
    ELSE IF Beyond(p.args, 1) THEN {Reply(p, VersionMessage, "False")}
    ELSE {ReplyAfter(p, "00000000" \o "\t\t\t\t\tHeader", "None",
                     <<Call("getOffsets", "", VersionOf(p.args, 1))>>)}

do_offsets(argv) ==
    IF pdfFile = NoDocument THEN Step("offsets", argv, Reply(InForce, MustOpenMessage, "False"))
    ELSE \E o \in offsets(parseArgs(argv)) : Step("offsets", argv, o)

OffsetUnknown == "[!] Error: offset cannot be calculated"

rawobject(p) ==
    IF ~p.ok THEN {Reply(p, NotParsedMessage, "False")}
    ELSE IF Len(p.args) \notin {1, 2} THEN {Usage(p, "rawobject", "False")}
    ELSE IF (~isdigit(p.args[1]) /\ p.args[1] \notin {"trailer", "xref"})
            \/ (Len(p.args) = 2 /\ ~isdigit(p.args[2]))
    THEN {Usage(p, "rawobject", "False")}
    ELSE IF ~IsDocument(pdfFile) THEN {Raise(p, <<>>)}
    ELSE IF Beyond(p.args, 2) THEN {Reply(p, VersionMessage, "False")}
    ELSE Lookup(p, IF p.args[1] = "xref" THEN "getXrefSection"
                   ELSE IF p.args[1] = "trailer" THEN "getTrailer" ELSE "getObject",
                p.args[1], VersionOf(p.args, 2), {OffsetUnknown}, <<>>, {},
                "<< /Type /Catalog >>")

do_rawobject(argv) ==
    IF pdfFile = NoDocument
    THEN Step("rawobject", argv, Reply(InForce, MustOpenMessage, "False"))
    ELSE \E o \in rawobject(parseArgs(argv)) : Step("rawobject", argv, o)

NoStream == "[!] Error: The object doesn't contain any stream"
StreamBytes == PyBytes(<<66, 84>>)

\* log_output(command, value, [value], bytesOutput=True)
streamOf(p, id, version) ==
    {ReplyAfter(p, text, "False", <<Call("getObject", id, version)>>)
     : text \in {ObjectNotFound, NoStream}}
    \cup {[Base(p) EXCEPT !.outputs = <<LogBytes(p, PyStr("BT"), <<StreamBytes>>)>>,
                          !.calls = <<Call("getObject", id, version)>>]}

rawstream(p) ==
    IF ~p.ok THEN {Reply(p, NotParsedMessage, "False")}
    ELSE IF Len(p.args) \notin {1, 2} THEN {Usage(p, "rawstream", "False")}
    ELSE IF ~isdigit(p.args[1]) \/ (Len(p.args) = 2 /\ ~isdigit(p.args[2]))
    THEN {Usage(p, "rawstream", "False")}
    ELSE IF ~IsDocument(pdfFile) THEN {Raise(p, <<>>)}
    ELSE IF Beyond(p.args, 2) THEN {Reply(p, VersionMessage, "False")}
    ELSE streamOf(p, p.args[1], VersionOf(p.args, 2))

do_rawstream(argv) ==
    IF pdfFile = NoDocument
    THEN Step("rawstream", argv, Reply(InForce, MustOpenMessage, "False"))
    ELSE \E o \in rawstream(parseArgs(argv)) : Step("rawstream", argv, o)

UpperCase == "ABCDEFGHIJKLMNOPQRSTUVWXYZ"
LowerCase == "abcdefghijklmnopqrstuvwxyz"

lowerChar(c) ==
    IF Find(UpperCase, c) >= 0 THEN CharAt(LowerCase, Find(UpperCase, c)) ELSE c

\* str.lower()
RECURSIVE lower(_)
lower(s) ==
    IF Len(s) <= 1 THEN lowerChar(s)
    ELSE lower(Slice(s, 0, Len(s) \div 2)) \o lower(From(s, Len(s) \div 2))

references(p) ==
    IF ~p.ok THEN {Reply(p, NotParsedMessage, "False")}
    ELSE IF Len(p.args) \notin {2, 3} THEN {Usage(p, "references", "False")}
    ELSE IF ~isdigit(p.args[2]) \/ (Len(p.args) = 3 /\ ~isdigit(p.args[3]))
            \/ lower(p.args[1]) \notin {"to", "in"}
    THEN {Usage(p, "references", "False")}
    ELSE IF ~IsDocument(pdfFile) THEN {Raise(p, <<>>)}
    ELSE IF Beyond(p.args, 3) THEN {Reply(p, VersionMessage, "False")}
    ELSE {ReplyAfter(p, text, "None",
                     <<Call(IF lower(p.args[1]) = "to" THEN "getReferencesTo"
                            ELSE "getReferencesIn", p.args[2], VersionOf(p.args, 3))>>)
          : text \in {"No references", ObjectNotFound, "['1 0 R']"}}

do_references(argv) ==
    IF pdfFile = NoDocument
    THEN Step("references", argv, Reply(InForce, MustOpenMessage, "False"))
    ELSE \E o \in references(parseArgs(argv)) : Step("references", argv, o)

(***************************************************************************)
(* stream, tree                                                            *)
(***************************************************************************)
NotDecoded == "[!] Error: The stream cannot be decoded"

stream(p) ==
    IF ~p.ok THEN {Reply(p, NotParsedMessage, "False")}
    ELSE IF Len(p.args) \notin {1, 2} THEN {Usage(p, "stream", "False")}
    ELSE IF ~isdigit(p.args[1]) \/ (Len(p.args) = 2 /\ ~isdigit(p.args[2]))
    THEN {Usage(p, "stream", "False")}
    ELSE IF ~IsDocument(pdfFile) THEN {Raise(p, <<>>)}
    ELSE IF Beyond(p.args, 2) THEN {Reply(p, VersionMessage, "False")}
    ELSE streamOf(p, p.args[1], VersionOf(p.args, 2))
         \cup {ReplyAfter(p, NotDecoded, "False",
                          <<Call("getObject", p.args[1], VersionOf(p.args, 2))>>)}

do_stream(argv) ==
    IF pdfFile = NoDocument THEN Step("stream", argv, Reply(InForce, MustOpenMessage, "False"))
    ELSE \E o \in stream(parseArgs(argv)) : Step("stream", argv, o)

tree(p) ==
    IF ~p.ok THEN {Reply(p, NotParsedMessage, "False")}
    ELSE IF Len(p.args) > 1 THEN {Usage(p, "tree", "False")}
    \* a version that is no number is answered as a version that is not valid
    ELSE IF Len(p.args) = 1 /\ ~isdigit(p.args[1]) THEN {Reply(p, VersionMessage, "False")}
    ELSE IF ~IsDocument(pdfFile) THEN {Raise(p, <<>>)}
    ELSE IF Beyond(p.args, 1) \/ (Len(p.args) = 1 /\ int(p.args[1]) < 0)
    THEN {Reply(p, VersionMessage, "False")}
    ELSE {ReplyAfter(p, text, "None", <<Call("getTree", "", VersionOf(p.args, 1))>>)
          : text \in {"", "/Catalog (1)"}}

do_tree(argv) ==
    IF pdfFile = NoDocument THEN Step("tree", argv, Reply(InForce, MustOpenMessage, "False"))
    ELSE \E o \in tree(parseArgs(argv)) : Step("tree", argv, o)

(***************************************************************************)
(* hash, vtcheck, xor, xor_search: the content comes from a variable, a    *)
(* file, raw bytes of the document or an object of it.                     *)
(***************************************************************************)
objectSources == {"object", "rawobject", "stream", "rawstream"}
streamSources == {"stream", "rawstream"}

\* The content of an object source, version being <<>> or <<text>>.
objectSource(p, cmd, srcType, id, version, finals) ==
    IF ~isdigit(id) \/ (version # <<>> /\ ~isdigit(version[1])) THEN {Usage(p, cmd, "False")}
    ELSE IF ~IsDocument(pdfFile) THEN {Raise(p, <<>>)}
    ELSE IF Beyond(version, 1) THEN {Reply(p, VersionMessage, "False")}
    ELSE LET found == <<Call("getObject", id, VersionOf(version, 1))>> IN
         {ReplyAfter(p, ObjectNotFound, "False", found)}
         \cup (IF srcType \in streamSources THEN {ReplyAfter(p, NoStream, "False", found)}
               ELSE {})
         \cup {Finish(p, cmd, found, FALSE, f) : f \in finals}

\* getBytesFromFile(self.pdfFile.getPath(), offset, size)
rawSource(p, cmd, offset, size, finals) ==
    IF ~isdigit(offset) \/ ~isdigit(size) THEN {Usage(p, cmd, "False")}
    ELSE IF ~IsDocument(pdfFile) THEN {Raise(p, <<>>)}
    ELSE {ReplyAfter(p, FileMissing, "False", <<Call("getPath", "", NoVersion)>>)}
         \cup {Finish(p, cmd, <<Call("getPath", "", NoVersion)>>, FALSE, f) : f \in finals}

contentSource(p, cmd, srcType, a, b, version, finals) ==
    IF srcType = "variable"
    THEN IF a \notin DOMAIN variables THEN {Reply(p, VariableMissing, "False")}
         ELSE {Finish(p, cmd, <<>>, FALSE, f) : f \in finals}
    ELSE IF srcType = "file"
    THEN IF a \notin DOMAIN files THEN {Reply(p, FileMissing, "False")}
         ELSE {Finish(p, cmd, <<>>, FALSE, f) : f \in finals}
    ELSE IF srcType = "string" THEN {Finish(p, cmd, <<>>, FALSE, f) : f \in finals}
    ELSE IF pdfFile = NoDocument THEN {Reply(p, MustOpenMessage, "False")}
    ELSE IF srcType = "raw" THEN rawSource(p, cmd, a, b, finals)
    ELSE objectSource(p, cmd, srcType, a, version, finals)

\* The shapes hash and vtcheck accept: two arguments, or three for an
\* object with its version and for raw bytes.
hashShape(args, named) ==
    \/ Len(args) = 2 /\ args[1] \in objectSources \cup named
    \/ Len(args) = 3 /\ args[1] \in objectSources \cup {"raw"}

hashOutput == "MD5: d41d" \o newLine \o "SHA1: da39" \o newLine \o "SHA256: e3b0" \o newLine

hash(p) ==
    IF ~p.ok THEN {ReplyUsage(p, NotParsedMessage, "hash", "False")}
    ELSE IF ~hashShape(p.args, {"file", "variable", "string"}) THEN {Usage(p, "hash", "False")}
    ELSE contentSource(p, "hash", p.args[1], p.args[2],
                       IF Len(p.args) = 3 THEN p.args[3] ELSE "",
                       IF Len(p.args) = 3 THEN <<p.args[3]>> ELSE <<>>,
                       {Final(hashOutput, "None")})

do_hash(argv) == \E o \in hash(parseArgs(argv)) : Step("hash", argv, o)

KeyNotSet ==
    "[!] Error: The " \o Quote2 \o "vt_key" \o Quote2 \o " variable has not been set!"
    \o " You need to use your own VirusTotal API key. " \o newLine \o newLine

vtFinals ==
    {Final("[!] Error: Bad response from VirusTotal", "False"),
     Final("Detection rate:  0/60" \o newLine, "None")}

vtcheck(p) ==
    IF ~p.ok THEN {Reply(p, NotParsedMessage, "False")}
    ELSE IF Len(p.args) = 0
    THEN IF pdfFile = NoDocument THEN {Reply(p, MustOpenMessage, "False")}
         ELSE OnDocument(p,
                {Finish(p, "vtcheck", <<Call("getMD5", "", NoVersion)>>, FALSE, f)
                 : f \in vtFinals}
                \cup {ReplyAfter(p, "File not found on VirusTotal!", "None",
                                 <<Call("getMD5", "", NoVersion),
                                   Call("setDetectionRate", "", NoVersion)>>)})
    ELSE IF ~hashShape(p.args, {"file", "variable"}) THEN {Usage(p, "vtcheck", "False")}
    ELSE contentSource(p, "vtcheck", p.args[1], p.args[2],
                       IF Len(p.args) = 3 THEN p.args[3] ELSE "",
                       IF Len(p.args) = 3 THEN <<p.args[3]>> ELSE <<>>, vtFinals)

do_vtcheck(argv) ==
    IF variables["vt_key"].cur = PyStr(vtKey)
    THEN Step("vtcheck", argv, Reply(InForce, KeyNotSet, "False"))
    ELSE \E o \in vtcheck(parseArgs(argv)) : Step("vtcheck", argv, o)

xorTypes == {"variable", "file", "raw", "stream", "rawstream"}
KeyMessage == "[!] Error: The key must be an hexadecimal digit (0x5,0xa1,0x2f...)"
EmptyContent == "[!] Warning: The content is empty"
LowerHex == "0123456789abcdef"
BackslashX == "\\x"

\* The version and the key among the arguments of xor, each <<>> or <<text>>.
xorVersion(args) ==
    IF args[1] \notin streamSources THEN <<>>
    ELSE IF Len(args) = 4 THEN <<args[3]>>
    ELSE IF Len(args) = 3 /\ Find(args[3], "0x") = -1 /\ Find(args[3], BackslashX) = -1
    THEN <<args[3]>>
    ELSE <<>>

xorKey(args) ==
    IF Len(args) = 4 THEN <<args[4]>>
    ELSE IF Len(args) = 3 /\ args[1] \in {"file", "variable"} THEN <<args[3]>>
    ELSE IF Len(args) = 3 /\ args[1] \in streamSources /\ xorVersion(args) = <<>>
    THEN <<args[3]>>
    ELSE <<>>

xorShape(args) ==
    \/ Len(args) = 2 /\ args[1] \in streamSources \cup {"file", "variable"}
    \/ Len(args) = 3 /\ args[1] \in xorTypes
    \/ Len(args) = 4 /\ args[1] \in streamSources \cup {"raw"}

\* re.match("[0-9a-f]{1,2}", key) matching the whole key, 0x and \x removed
hexKey(key) ==
    LET k == Replace(Replace(key, "0x", ""), BackslashX, "") IN
    /\ Len(k) \in {1, 2}
    /\ \A i \in 0..(Len(k) - 1) : Find(LowerHex, CharAt(k, i)) >= 0

xorFinals ==
    {Final(EmptyContent, "False"),
     [text |-> "cv", retval |-> "None", hasBytes |-> TRUE, bytes |-> <<PyStr("cv")>>]}

xor(p) ==
    \* if not args: no arguments either
    IF ~p.ok \/ Len(p.args) = 0 THEN {ReplyUsage(p, NotParsedMessage, "xor", "False")}
    ELSE IF ~xorShape(p.args) THEN {Usage(p, "xor", "False")}
    ELSE IF xorKey(p.args) # <<>> /\ ~hexKey(xorKey(p.args)[1])
    THEN {Reply(p, KeyMessage, "False")}
    ELSE contentSource(p, "xor", p.args[1], p.args[2],
                       IF Len(p.args) >= 3 THEN p.args[3] ELSE "",
                       xorVersion(p.args), xorFinals)

do_xor(argv) == \E o \in xor(parseArgs(argv)) : Step("xor", argv, o)

EmptyString == "[!] Error: The string cannot be empty"

\* srcType is read before -i is taken off the arguments
searchShape(srcType, args) ==
    \/ Len(args) = 3 /\ srcType \in streamSources \cup {"file", "variable"}
    \/ Len(args) = 4 /\ srcType \in streamSources \cup {"raw"}

searchFinals(string) ==
    IF string = "" THEN {Final(EmptyString, "False")}
    ELSE {Final(EmptyContent, "False"), Final("[!] Pattern not found", "None"),
          Final("Pattern found with the following keys: ['0x0']" \o newLine \o newLine,
                "None")}

xor_search(p) ==
    IF ~p.ok \/ Len(p.args) = 0 THEN {ReplyUsage(p, NotParsedMessage, "xor_search", "False")}
    ELSE LET args == IF p.args[1] = "-i" THEN Tail(p.args) ELSE p.args IN
    IF ~searchShape(p.args[1], args) THEN {Usage(p, "xor_search", "False")}
    ELSE contentSource(p, "xor_search", p.args[1], args[2], args[3],
                       IF Len(args) = 4 THEN <<args[3]>> ELSE <<>>,
                       searchFinals(args[Len(args)]))

do_xor_search(argv) == \E o \in xor_search(parseArgs(argv)) : Step("xor_search", argv, o)

(***************************************************************************)
(* filters $object_id [$version] [$filter1 [$filter2 ...]]                 *)
(***************************************************************************)
filter2RealFilterDict ==
    [f \in {"b64", "base64", "asciihex", "ahx", "ascii85", "a85", "lzw", "flatedecode",
            "fl", "runlength", "rl", "ccittfax", "ccf", "jbig2", "dct", "jpx"} |->
        IF f \in {"b64", "base64"} THEN "base64"
        ELSE IF f \in {"asciihex", "ahx"} THEN "/ASCIIHexDecode"
        ELSE IF f \in {"ascii85", "a85"} THEN "/ASCII85Decode"
        ELSE IF f = "lzw" THEN "/LZWDecode"
        ELSE IF f \in {"flatedecode", "fl"} THEN "/FlateDecode"
        ELSE IF f \in {"runlength", "rl"} THEN "/RunLengthDecode"
        ELSE IF f \in {"ccittfax", "ccf"} THEN "/CCITTFaxDecode"
        ELSE IF f = "jbig2" THEN "/JBIG2Decode"
        ELSE IF f = "dct" THEN "/DCTDecode"
        ELSE "/JPXDecode"]

filtersNotImplemented ==
    {"ascii85", "a85", "runlength", "rl", "jbig2", "jpx", "ccittfax", "ccf", "dct"}
validFilters == ((DOMAIN filter2RealFilterDict) \cup {"none"}) \ {"b64", "base64"}

NotImplementedYet(filter) ==
    "[!] Error: Filter " \o Quote2 \o filter \o Quote2 \o " not implemented yet"
NoStreams == "[!] Error: The object doesn't contain any streams"
NoFilters == "[!] Warning: No filters found in the object"

\* The loop over the filter arguments: the first one that is unknown or not
\* implemented ends the command.
RECURSIVE filtersLoop(_, _)
filtersLoop(args, i) ==
    IF i > Len(args) THEN [kind |-> "ok"]
    ELSE IF lower(args[i]) \notin validFilters THEN [kind |-> "help"]
    ELSE IF lower(args[i]) \in filtersNotImplemented
    THEN [kind |-> "notImplemented", filter |-> lower(args[i])]
    ELSE filtersLoop(args, i + 1)

\* log_output(command, message + value, [value], bytesOutput=True)
filtersOutput(p, calls, message, value) ==
    [Base(p) EXCEPT !.outputs = <<LogBytes(p, PyStr(message \o value), <<PyStr(value)>>)>>,
                    !.calls = calls]

\* A call of the stream object that takes a name and a value.
ElementCall(op, name, value) ==
    [op |-> op, id |-> name, version |-> NoVersion, value |-> value]

Reversed(c) == [i \in 1..Len(c) |-> c[Len(c) + 1 - i]]
IsFilter(f) == f # "none"

\* What the command does to /Filter for the filters given: one filter is
\* set as a name (none deletes the element); of several the none are
\* removed, the rest reversed and set as an array, unless nothing is left.
filtersInOrder(names) == SelectSeq(names, IsFilter)
filtersReversed(names) == Reversed(SelectSeq(names, IsFilter))
filtersElement(names) ==
    IF Len(names) = 1
    THEN IF names[1] = "none" THEN <<ElementCall("delElement", "/Filter", <<>>)>>
         ELSE <<ElementCall("setElement", "/Filter", <<filter2RealFilterDict[names[1]]>>)>>
    ELSE LET filtersArray ==
                 [i \in 1..Len(filtersReversed(names)) |->
                     filter2RealFilterDict[filtersReversed(names)[i]]]
         IN  IF filtersArray # <<>>
             THEN <<ElementCall("setElement", "/Filter", filtersArray)>>
             ELSE <<>>

filtersOf(p, id, version, names) ==
    LET none == names = <<>>
        found == <<Call("getObject", id, version)>>
        element == found \o filtersElement(names)
        stored == element \o <<Call("setObject", id, version)>>
    IN  {ReplyAfter(p, text, "False", found) : text \in {ObjectNotFound, NoStreams}}
        \cup (IF none
              THEN {ReplyAfter(p, NoFilters, "False", found),
                    filtersOutput(p, found, "", "/FlateDecode")}
              ELSE {ReplyAfter(p, NotDecoded, "False", found),
                    ReplyAfter(p, "[!] Error: Unable to set the object", "False", stored),
                    filtersOutput(p, stored, "", "<< /Filter /FlateDecode >>")}
                   \cup {ReplyAfter(p, "[!] Error: Unable to set the element", "False", element)
                         : e \in {<<>>} \ {filtersElement(names)}})

filters(p) ==
    IF ~p.ok \/ Len(p.args) = 0 THEN {ReplyUsage(p, NotParsedMessage, "filters", "False")}
    ELSE LET versioned == Len(p.args) > 1 /\ isdigit(p.args[2])
             scan == filtersLoop(p.args, IF versioned THEN 3 ELSE 2)
         IN
    IF scan.kind = "help" THEN {Usage(p, "filters", "False")}
    ELSE IF scan.kind = "notImplemented" THEN {Reply(p, NotImplementedYet(scan.filter), "False")}
    ELSE IF ~isdigit(p.args[1]) THEN {Usage(p, "filters", "False")}
    ELSE IF ~IsDocument(pdfFile) THEN {Raise(p, <<>>)}
    ELSE IF versioned /\ Beyond(p.args, 2) THEN {Reply(p, VersionMessage, "False")}
    ELSE filtersOf(p, p.args[1], IF versioned THEN int(p.args[2]) ELSE NoVersion,
                   [i \in 1..(Len(p.args) - (IF versioned THEN 2 ELSE 1)) |->
                       lower(p.args[i + (IF versioned THEN 2 ELSE 1)])])

do_filters(argv) ==
    IF pdfFile = NoDocument THEN Step("filters", argv, Reply(InForce, MustOpenMessage, "False"))
    ELSE \E o \in filters(parseArgs(argv)) : Step("filters", argv, o)

(***************************************************************************)
(* create pdf|object_stream                                                *)
(***************************************************************************)
validCreateTypes == {"pdf", "object_stream"}
validPDFTypes == {"simple", "open_action_js"}
PDFCreated == "[+] PDF structure created successfully"
PDFNotCreated == "[!] Error: An error occurred while creating the PDF structure"
BatchNeedsJS == "[!] Error: You must specify a Javascript file in batch mode"
ResponseNotValid ==
    "[!] Error: The response format is not valid. It should be: all | 1-13 | 1,3,5,8"
StreamNotCreated == "[!] Error: The object stream has NOT been created"
StreamCreated == "[+] The object stream has been created successfully"

\* self.pdfFile = PDFFile(); self.pdfFile.makePDF(pdfType, content)
makePDF(p) ==
    {[ReplyAfter(p, text, "None", <<Call("makePDF", "", NoVersion)>>)
        EXCEPT !.pdfFile = Document("", 0)] : text \in {PDFCreated, PDFNotCreated}}

createPDF(p) ==
    IF Len(p.args) = 1 THEN makePDF(p)
    ELSE IF p.args[2] \notin validPDFTypes THEN {Usage(p, "create", "False")}
    ELSE IF p.args[2] = "simple"
    THEN IF Len(p.args) > 2 THEN {Usage(p, "create", "False")} ELSE makePDF(p)
    ELSE IF Len(p.args) > 3 THEN {Usage(p, "create", "False")}
    ELSE IF Len(p.args) = 3
    THEN IF p.args[3] \notin DOMAIN files THEN {Reply(p, NoSuchFile(p.args[3]), "False")}
         ELSE makePDF(p)
    ELSE IF env.use_rawinput THEN makePDF(p)
    ELSE {Reply(p, BatchNeedsJS, "False")}

\* str.count(c) and str.split(c) for a separator of one character
Count(s, c) == Cardinality({k \in 0..(Len(s) - 1) : CharAt(s, k) = c})

RECURSIVE Split(_, _)
Split(s, c) ==
    IF Find(s, c) = -1 THEN <<s>>
    ELSE <<Slice(s, 0, Find(s, c))>> \o Split(From(s, Find(s, c) + 1), c)

\* range(a, b)
range(a, b) == [k \in 1..(b - a) |-> a + k - 1]

\* The objects to compress out of the response; int() raises on a piece
\* that is no number.
objectsOf(res) ==
    IF res = "all" THEN [kind |-> "ok", objects |-> <<>>]
    ELSE IF Count(res, "-") = 1
    THEN LET limits == Split(res, "-") IN
         IF isdigit(limits[1]) /\ isdigit(limits[2])
         THEN [kind |-> "ok", objects |-> range(int(limits[1]), int(limits[2]) + 1)]
         ELSE [kind |-> "raise"]
    ELSE IF Find(res, ",") # -1
    THEN LET ids == Split(res, ",") IN
         IF \A i \in 1..Len(ids) : isdigit(ids[i])
         THEN [kind |-> "ok", objects |-> [i \in 1..Len(ids) |-> int(ids[i])]]
         ELSE [kind |-> "raise"]
    ELSE IF isdigit(res) THEN [kind |-> "ok", objects |-> <<int(res)>>]
    ELSE [kind |-> "invalid"]

\* What the user answers to the question about the objects to compress.
Responses == {"all", "2-3", "2,", "5", "none"}

CompressedCatalog == "The Catalog object has been compressed"
CompressError == "Error: the object stream cannot be created"

\* createObjectStream(version, objectIds) -> (status, containerId|error)
CreateOutcomes ==
    {[status |-> 0, value |-> PyInt(7)],
     [status |-> -1, value |-> PyStr(CompressError)],
     [status |-> -1, value |-> PyStr(CompressedCatalog)]}

CreateCall(version, objects, outcome) ==
    [op |-> "createObjectStream", id |-> JoinInts(objects), version |-> version,
     outcome |-> outcome]

\* The handler after createObjectStream returned ret.
created(p, calls, outcome) ==
    IF outcome.status = -1 /\ Find(outcome.value.str, "Error") # -1
    THEN ReplyAfter(p, "[!] Error: " \o outcome.value.str, "False", calls)
    \* id = ret[1]
    ELSE IF IsNone(outcome.value) THEN ReplyAfter(p, StreamNotCreated, "False", calls)
    ELSE ReplyAfter(p, (IF outcome.status = -1
                        THEN "[!] Warning: " \o outcome.value.str \o newLine \o newLine
                        ELSE "") \o StreamCreated,
                    "None", calls)

createObjectStream(p, version, res) ==
    LET o == objectsOf(res) IN
    IF o.kind = "raise" THEN {Raise(p, <<>>)}
    ELSE IF o.kind = "invalid" THEN {Reply(p, ResponseNotValid, "False")}
    ELSE IF ~IsDocument(pdfFile) THEN {Raise(p, <<>>)}
    ELSE {created(p, <<CreateCall(version, o.objects, outcome)>>, outcome)
          : outcome \in CreateOutcomes}

create(p) ==
    \* if not args: no arguments either
    IF ~p.ok \/ Len(p.args) = 0 THEN {ReplyUsage(p, NotParsedMessage, "create", "False")}
    ELSE IF p.args[1] \notin validCreateTypes THEN {Usage(p, "create", "False")}
    ELSE IF p.args[1] = "pdf" THEN createPDF(p)
    ELSE IF pdfFile = NoDocument THEN {Reply(p, MustOpenMessage, "False")}
    ELSE IF Len(p.args) > 2 THEN {Usage(p, "create", "False")}
    ELSE IF Len(p.args) = 2 /\ ~isdigit(p.args[2]) THEN {Usage(p, "create", "False")}
    ELSE IF Len(p.args) = 2 /\ ~IsDocument(pdfFile) THEN {Raise(p, <<>>)}
    ELSE IF Beyond(p.args, 2) THEN {Reply(p, VersionMessage, "False")}
    ELSE UNION {createObjectStream(p, VersionOf(p.args, 2), res)
                : res \in IF env.use_rawinput THEN Responses ELSE {"all"}}

do_create(argv) == \E o \in create(parseArgs(argv)) : Step("create", argv, o)

(***************************************************************************)
(* The commands on a document are explored on the console as constructed,  *)
(* after the VirusTotal key was set, and after a file was opened: what a   *)
(* command does depends on the console through the document held, the      *)
(* variables and the redirection in force only.                            *)
(***************************************************************************)
After(commands) == cmdLine.cmd \in commands
Prelude == {"", "set", "open"}

\* The versions asked for: those of the documents and the first beyond.
VersionTokens == {IntStr(v) : v \in 0..(MaxUpdates + 1)}

VersionCommands ==
    {"changelog", "create", "encode_strings", "errors", "extract", "filters", "hash",
     "info", "js_analyse", "js_beautify", "js_code", "js_eval", "js_jjdecode", "metadata",
     "modify", "object", "offsets", "rawobject", "rawstream", "references",
     "save_version", "stream", "tree", "vtcheck", "xor", "xor_search"}

\* modify with three arguments, the third being the version unless a file
\* has that name.
ModifyShort == {<<"object 1 ", "">>}

\* The lines of a command that name a version: what stands before and after
\* the version, every other argument being one the command accepts.
PlainShapes(cmd) ==
    IF cmd \in {"changelog", "metadata", "offsets", "tree"} THEN {<<"", "">>}
    ELSE IF cmd = "create" THEN {<<"object_stream ", "">>}
    ELSE IF cmd = "encode_strings" THEN {<<"1 ", "">>, <<"trailer ", "">>}
    ELSE IF cmd \in {"errors", "info", "rawobject"} THEN {<<"1 ", "">>, <<"xref ", "">>}
    ELSE IF cmd = "extract" THEN {<<"uri ", "">>}
    ELSE IF cmd \in {"filters", "js_code", "object", "rawstream", "stream"}
    THEN {<<"1 ", "">>}
    ELSE IF cmd \in {"hash", "vtcheck"} THEN {<<"object 1 ", "">>, <<"stream 1 ", "">>}
    ELSE IF cmd \in {"js_analyse", "js_beautify", "js_eval", "js_jjdecode"}
    THEN {<<"object 1 ", "">>}
    ELSE IF cmd = "modify" THEN ModifyShort \cup {<<"stream 1 ", " hdr">>}
    ELSE IF cmd = "references" THEN {<<"to 1 ", "">>}
    ELSE IF cmd = "save_version" THEN {<<"", " out.pdf">>}
    ELSE IF cmd = "xor" THEN {<<"stream 1 ", "">>, <<"rawstream 1 ", " 0x5">>}
    ELSE IF cmd = "xor_search" THEN {<<"stream 1 ", " a">>}
    ELSE {}

\* Lines whose other arguments end the command on their own: a filter that
\* is not implemented, a key that is no hexadecimal digit, a content file
\* that does not exist.
HinderedShapes(cmd) ==
    IF cmd = "filters" THEN {<<"1 ", " a85">>}
    ELSE IF cmd = "xor" THEN {<<"stream 1 ", " zz">>}
    ELSE IF cmd = "modify" THEN {<<"stream 1 ", " nope">>}
    ELSE {}

\* xor_search -i in front of each form of source, the rest of the line being
\* one the command accepts.
InsensitiveLines ==
    {"-i stream 1 a", "-i rawstream 1 0 a", "-i raw 0 4 a", "-i file hdr a",
     "-i variable vt_key a"}

VersionLines(shapes, versions) == {s[1] \o v \o s[2] : s \in shapes, v \in versions}

\* Lines without a version, and lines the command does not accept.
OtherLines(cmd) ==
    IF cmd \in {"changelog", "metadata", "offsets", "tree", "encode_strings", "errors",
                "info", "vtcheck"} THEN {"", "x"}
    ELSE IF cmd = "create" THEN {"pdf", "pdf open_action_js", "object_stream"}
    ELSE IF cmd = "extract" THEN {"js", "uri x"}
    ELSE IF cmd = "filters" THEN {"1", "1 fl", "1 none ahx"}
    ELSE IF cmd \in {"js_code", "object", "rawobject", "rawstream", "stream"} THEN {"1", "x"}
    ELSE IF cmd \in {"hash", "js_analyse", "js_beautify", "js_eval", "js_jjdecode"}
    THEN {"object 1", "variable header_file", "file nope", "string a"}
    ELSE IF cmd = "modify" THEN {"object 1", "stream 1", "stream 1 hdr", "object trailer"}
    ELSE IF cmd = "references" THEN {"IN 1", "of 1"}
    ELSE IF cmd = "save_version" THEN {"0"}
    ELSE IF cmd = "xor" THEN {"raw 0 4", "file hdr 0x5"}
    ELSE IF cmd = "xor_search" THEN {"raw 0 4 a"} \cup InsensitiveLines
    ELSE {}

Lines(cmd) ==
    VersionLines(PlainShapes(cmd) \cup HinderedShapes(cmd), VersionTokens)
    \cup OtherLines(cmd)

KeyLines == {"vt_key k"}

Init ==
    /\ InitConsole
    /\ cmdLine = NoLine
    /\ env \in [JS_MODULE : BOOLEAN, use_rawinput : BOOLEAN]

Next ==
    \/ \E argv \in KeyLines : After({""}) /\ do_set(argv)
    \/ \E argv \in OpenLines : After({"", "set"}) /\ do_open(argv)
    \/ \E argv \in Lines("changelog") : After(Prelude) /\ do_changelog(argv)
    \/ \E argv \in Lines("create") : After(Prelude) /\ do_create(argv)
    \/ \E argv \in Lines("encode_strings") : After(Prelude) /\ do_encode_strings(argv)
    \/ \E argv \in Lines("errors") : After(Prelude) /\ do_errors(argv)
    \/ \E argv \in Lines("extract") : After(Prelude) /\ do_extract(argv)
    \/ \E argv \in Lines("filters") : After(Prelude) /\ do_filters(argv)
    \/ \E argv \in Lines("hash") : After(Prelude) /\ do_hash(argv)
    \/ \E argv \in Lines("info") : After(Prelude) /\ do_info(argv)
    \/ \E argv \in Lines("js_analyse") : After(Prelude) /\ do_js_analyse(argv)
    \/ \E argv \in Lines("js_beautify") : After(Prelude) /\ do_js_beautify(argv)
    \/ \E argv \in Lines("js_code") : After(Prelude) /\ do_js_code(argv)
    \/ \E argv \in Lines("js_eval") : After(Prelude) /\ do_js_eval(argv)
    \/ \E argv \in Lines("js_jjdecode") : After(Prelude) /\ do_js_jjdecode(argv)
    \/ \E argv \in Lines("metadata") : After(Prelude) /\ do_metadata(argv)
    \/ \E argv \in Lines("modify") : After(Prelude) /\ do_modify(argv)
    \/ \E argv \in Lines("object") : After(Prelude) /\ do_object(argv)
    \/ \E argv \in Lines("offsets") : After(Prelude) /\ do_offsets(argv)
    \/ \E argv \in Lines("rawobject") : After(Prelude) /\ do_rawobject(argv)
    \/ \E argv \in Lines("rawstream") : After(Prelude) /\ do_rawstream(argv)
    \/ \E argv \in Lines("references") : After(Prelude) /\ do_references(argv)
    \/ \E argv \in Lines("save_version") : After(Prelude) /\ do_save_version(argv)
    \/ \E argv \in Lines("stream") : After(Prelude) /\ do_stream(argv)
    \/ \E argv \in Lines("tree") : After(Prelude) /\ do_tree(argv)
    \/ \E argv \in Lines("vtcheck") : After(Prelude) /\ do_vtcheck(argv)
    \/ \E argv \in Lines("xor") : After(Prelude) /\ do_xor(argv)
    \/ \E argv \in Lines("xor_search") : After(Prelude) /\ do_xor_search(argv)

Spec == Init /\ [][Next]_vars

(***************************************************************************)
(* Claims on the commands on a document.                                   *)
(***************************************************************************)
\* The command read a line naming a version beyond the updates of the
\* document held, the line being one of those of shapes.
BeyondLine(shapes) ==
    /\ IsDocument(pdfFile)
    /\ cmdLine.cmd \in VersionCommands
    /\ \E v \in VersionTokens :
        /\ int(v) > pdfFile.numUpdates
        /\ cmdLine.argv \in VersionLines(shapes, {v})

VersionRefused ==
    /\ printed = <<PyStr(VersionMessage)>>
    /\ coreCalls = <<>>
    /\ ret = "False"

\* What a command needs before it looks at the version: PyV8 for js_analyse
\* and js_eval, the VirusTotal key for vtcheck, and for modify with three
\* arguments a version that is not the name of a file.
Unhindered ==
    /\ cmdLine.cmd \in {"js_analyse", "js_eval"} => env.JS_MODULE
    /\ cmdLine.cmd = "vtcheck" => variables["vt_key"].cur # PyStr(vtKey)
    /\ cmdLine.cmd = "modify" =>
        \A v \in VersionTokens :
            cmdLine.argv \in VersionLines(ModifyShort, {v}) => v \notin DOMAIN files

\* C1 as stated: with a document open, every command that accepts a version
\* ends a line whose numeric version is greater than the number of updates
\* with 'The version number is not valid', having called nothing of the
\* core, and never with 'Object not found'.
C1_VersionAlwaysRefused ==
    BeyondLine(PlainShapes(cmdLine.cmd) \cup HinderedShapes(cmdLine.cmd)) => VersionRefused

\* C1 amended: the same of the lines whose other arguments the command
\* accepts and implements (filters that are implemented, a hexadecimal key,
\* a content file that exists), when PyV8 is installed for js_analyse and
\* js_eval, the VirusTotal key is set for vtcheck and the version given to
\* modify does not name an existing file.
C1_VersionRefused ==
    (BeyondLine(PlainShapes(cmdLine.cmd)) /\ Unhindered) => VersionRefused

\* C1 witness: vtcheck with the key set refuses version 2 of a document
\* with one update.
C1_Witness ==
    /\ cmdLine = [cmd |-> "vtcheck", argv |-> "object 1 2"]
    /\ IsDocument(pdfFile) /\ pdfFile.numUpdates = 1
    /\ variables["vt_key"].cur = PyStr("k")
    /\ VersionRefused

\* C9: when the parser reports a failure for the file given to open, the
\* console holds no document and has reported 'Opening document failed'.
C9_FailedOpenHoldsNothing ==
    (cmdLine.cmd = "open" /\ coreCalls # <<>> /\ ParseFailed(coreCalls[1].outcome))
        => /\ pdfFile = NoDocument
           /\ \E i \in 1..Len(printed) : printed[i] = PyStr(OpeningFailedMessage)

\* C10: create object_stream reports the successful creation only when
\* createObjectStream returned a container id, never when it returned the
\* failure status with a warning or an error text.
C10_SuccessNeedsId ==
    (cmdLine.cmd = "create" /\ coreCalls # <<>> /\ coreCalls[1].op = "createObjectStream"
        /\ \E i \in 1..Len(printed) : IsStr(printed[i]) /\ Find(printed[i].str, StreamCreated) # -1)
        => /\ coreCalls[1].outcome.status = 0
           /\ IsInt(coreCalls[1].outcome.value)

(***************************************************************************)
(* The codecs behind encode and decode.  Contents are byte buffers; the    *)
(* text of a buffer is its latin-1 reading.                                *)
(***************************************************************************)
\* ord(c) of a character and the bytes of a text
Ord(c) == IF c = newLine THEN 10 ELSE 32 + Find(Ascii, c)
bytesOf(s) == [i \in 1..Len(s) |-> Ord(CharAt(s, i - 1))]

\* The answers of a codec: (0, buffer) and (-1, error).
Done(bs) == [status |-> 0, value |-> PyBytes(bs)]
Failed(text) == [status |-> -1, value |-> PyStr(text)]

\* The loops of the codecs read a buffer from left to right until the end
\* or until the state says done.  The buffer is read by halves, which is
\* the same walk.
RECURSIVE codecLoop(_, _, _, _, _)

\* base64.b64encode(s): a bytes-like object is required.
B64Alphabet == "ABCDEFGHIJKLMNOPQRSTUVWXYZabcdefghijklmnopqrstuvwxyz0123456789+/"
B64Char(n) == Ord(CharAt(B64Alphabet, n))
B64Pad == 61

\* the character at place k (0 to 3) of the group that starts at byte g
b64At(bs, g, k) ==
    LET n == Len(bs)
        b1 == bs[g]
        b2 == IF g + 1 <= n THEN bs[g + 1] ELSE 0
        b3 == IF g + 2 <= n THEN bs[g + 2] ELSE 0
    IN  IF k = 0 THEN B64Char(b1 \div 4)
        ELSE IF k = 1 THEN B64Char((b1 % 4) * 16 + b2 \div 16)
        ELSE IF k = 2 THEN (IF g + 1 <= n THEN B64Char((b2 % 16) * 4 + b3 \div 64) ELSE B64Pad)
        ELSE (IF g + 2 <= n THEN B64Char(b3 % 64) ELSE B64Pad)
b64Groups(bs) ==
    [i \in 1..(4 * ((Len(bs) + 2) \div 3)) |-> b64At(bs, 3 * ((i - 1) \div 4) + 1, (i - 1) % 4)]

b64encode(s) == IF IsBytes(s) THEN PyBytes(b64Groups(s.bytes)) ELSE Raised

\* base64.b64decode(s) without validation: the characters outside the
\* alphabet are skipped, the padding ends the data once the group is
\* complete, and a group left open is an error.
B64Value(n) ==
    IF n >= 65 /\ n <= 90 THEN n - 65
    ELSE IF n >= 97 /\ n <= 122 THEN n - 71
    ELSE IF n >= 48 /\ n <= 57 THEN n + 4
    ELSE IF n = 43 THEN 62
    ELSE IF n = 47 THEN 63
    ELSE -1

IncorrectPadding == "Incorrect padding"
OneDataCharacter(n) ==
    "Invalid base64-encoded string: number of data characters (" \o IntStr(n)
    \o ") cannot be 1 more than a multiple of 4"
NotBytesLike(v) ==
    "argument should be a bytes-like object or ASCII string, not '"
    \o (IF IsNone(v) THEN "NoneType" ELSE IF IsInt(v) THEN "int" ELSE "list") \o "'"

a2b_base64(st, c) ==
    IF c = B64Pad
    THEN IF st.quad_pos >= 2 /\ st.pads + 1 >= 4 - st.quad_pos THEN [st EXCEPT !.done = TRUE]
         ELSE [st EXCEPT !.pads = IF st.quad_pos >= 2 THEN @ + 1 ELSE @]
    ELSE IF B64Value(c) = -1 THEN st
    ELSE IF st.quad_pos = 0
    THEN [st EXCEPT !.quad_pos = 1, !.leftchar = B64Value(c), !.pads = 0]
    ELSE IF st.quad_pos = 1
    THEN [st EXCEPT !.quad_pos = 2, !.leftchar = B64Value(c) % 16, !.pads = 0,
                    !.out = Append(@, st.leftchar * 4 + B64Value(c) \div 16)]
    ELSE IF st.quad_pos = 2
    THEN [st EXCEPT !.quad_pos = 3, !.leftchar = B64Value(c) % 4, !.pads = 0,
                    !.out = Append(@, st.leftchar * 16 + B64Value(c) \div 4)]
    ELSE [st EXCEPT !.quad_pos = 0, !.leftchar = 0, !.pads = 0,
                    !.out = Append(@, st.leftchar * 64 + B64Value(c))]

b64End(st) ==
    IF st.done \/ st.quad_pos = 0 THEN Done(st.out)
    ELSE IF st.quad_pos = 1 THEN Failed(OneDataCharacter((Len(st.out) \div 3) * 4 + 1))
    ELSE Failed(IncorrectPadding)

b64Bytes(bs) ==
    b64End(codecLoop("base64",
                     [quad_pos |-> 0, leftchar |-> 0, pads |-> 0, out |-> <<>>, done |-> FALSE],
                     bs, 1, Len(bs)))
b64decode(s) ==
    IF IsBytes(s) THEN b64Bytes(s.bytes)
    ELSE IF IsStr(s) THEN b64Bytes(bytesOf(s.str))
    ELSE Failed(NotBytesLike(s))

(***************************************************************************)
(* encodeStream and decodeStream of the format layer: the hexadecimal,     *)
(* base-85, LZW, zlib and run-length codecs of the PDF reference.          *)
(***************************************************************************)
WhiteSpace == {0, 9, 10, 12, 13, 32}
HexError == "Error in hexadecimal conversion"
FlateError == "Error decompressing string"
LZWError == "Error decompressing string"
RunLengthError == "Error decoding string"
Ascii85Error == "Unspecified error"
UnsupportedFilter == "Filter not supported"

Stop(st) == [st EXCEPT !.done = TRUE]
Fail(st) == [st EXCEPT !.done = TRUE, !.failed = TRUE]

\* ASCIIHex: two hexadecimal digits per byte, closed by ">".
asciiHexEncode(bs) ==
    Done([i \in 1..(2 * Len(bs) + 1) |->
            IF i > 2 * Len(bs) THEN 62
            ELSE IF i % 2 = 1 THEN Ord(CharAt(HexChars, bs[(i + 1) \div 2] \div 16))
            ELSE Ord(CharAt(HexChars, bs[i \div 2] % 16))])

HexValue(n) ==
    IF n >= 48 /\ n <= 57 THEN n - 48
    ELSE IF n >= 97 /\ n <= 102 THEN n - 87
    ELSE IF n >= 65 /\ n <= 70 THEN n - 55
    ELSE -1
hexBytes(st, c) ==
    IF c = 62 THEN Stop(st)
    ELSE IF c \in WhiteSpace THEN st
    ELSE IF HexValue(c) = -1 THEN Fail(st)
    ELSE IF st.high = -1 THEN [st EXCEPT !.high = HexValue(c)]
    ELSE [st EXCEPT !.high = -1, !.out = Append(@, st.high * 16 + HexValue(c))]
asciiHexDecode(bs) ==
    LET st == codecLoop("/ASCIIHexDecode",
                       [high |-> -1, out |-> <<>>, done |-> FALSE, failed |-> FALSE],
                       bs, 1, Len(bs))
    IN  IF st.failed THEN Failed(HexError)
        ELSE Done(IF st.high = -1 THEN st.out ELSE Append(st.out, st.high * 16))

\* Flate: a zlib stream, here of one stored block: the header 78 01, the
\* block header 01, the length and its complement, the bytes and their
\* Adler-32 checksum.
AdlerBase == 65521
adler32(st, c) ==
    [st EXCEPT !.a = (@ + c) % AdlerBase, !.b = (@ + st.a + c) % AdlerBase]
adlerBytes(bs) ==
    LET st == codecLoop("/FlateDecode", [a |-> 1, b |-> 0, done |-> FALSE], bs, 1, Len(bs))
    IN  <<st.b \div 256, st.b % 256, st.a \div 256, st.a % 256>>
flateEncode(bs) ==
    LET n == Len(bs) IN
    Done(<<120, 1, 1, n % 256, n \div 256, 255 - (n % 256), 255 - (n \div 256)>>
         \o bs \o adlerBytes(bs))
flateDecode(bs) ==
    LET n == Len(bs) - 11 IN
    IF /\ n >= 0
       /\ SubSeq(bs, 1, 3) = <<120, 1, 1>>
       /\ bs[4] + 256 * bs[5] = n
       /\ bs[6] = 255 - bs[4] /\ bs[7] = 255 - bs[5]
       /\ SubSeq(bs, n + 8, n + 11) = adlerBytes(SubSeq(bs, 8, n + 7))
    THEN Done(SubSeq(bs, 8, n + 7))
    ELSE Failed(FlateError)

\* RunLength: a length byte below 128 copies the next length + 1 bytes, one
\* above 128 repeats the next byte 257 - length times, 128 ends the data.
runLength(st, c) ==
    IF st.copy > 0 THEN [st EXCEPT !.copy = @ - 1, !.out = Append(@, c)]
    ELSE IF st.run > 0 THEN [st EXCEPT !.run = 0, !.out = @ \o [k \in 1..st.run |-> c]]
    ELSE IF c = 128 THEN Stop(st)
    ELSE IF c < 128 THEN [st EXCEPT !.copy = c + 1]
    ELSE [st EXCEPT !.run = 257 - c]
runLengthDecode(bs) ==
    LET st == codecLoop("/RunLengthDecode",
                        [copy |-> 0, run |-> 0, out |-> <<>>, done |-> FALSE],
                        bs, 1, Len(bs))
    IN  IF st.copy > 0 \/ st.run > 0 THEN Failed(RunLengthError) ELSE Done(st.out)

\* LZW: codes of nine bits, most significant bit first; 256 clears the
\* table, 257 ends the data, and the codes from 258 on name the sequences
\* met so far.  The table of the contents here stays below 512 entries.
LZWWidth == 9
ClearTable == 256
EndOfData == 257

IndexOf(dict, w) ==
    IF \E k \in 1..Len(dict) : dict[k] = w
    THEN CHOOSE k \in 1..Len(dict) : dict[k] = w
    ELSE 0
lzwCode(dict, w) == IF Len(w) = 1 THEN w[1] ELSE EndOfData + IndexOf(dict, w)

lzwCodes(st, c) ==
    IF st.w = <<>> \/ IndexOf(st.dict, Append(st.w, c)) # 0
    THEN [st EXCEPT !.w = Append(@, c)]
    ELSE [st EXCEPT !.w = <<c>>, !.dict = Append(@, Append(st.w, c)),
                    !.out = Append(@, lzwCode(st.dict, st.w))]

\* the bits of numbers of the given width, and the numbers of the given
\* width in a sequence of bits; the last number is filled with zero bits
\* when fill is set and dropped otherwise
allBits(numbers, width) ==
    [i \in 1..(width * Len(numbers)) |->
        (numbers[(i - 1) \div width + 1] \div 2^(width - 1 - ((i - 1) % width))) % 2]
RECURSIVE valueOf(_, _, _)
valueOf(bits, from, width) ==
    IF width = 0 THEN 0
    ELSE 2 * valueOf(bits, from, width - 1)
         + (IF from + width - 1 <= Len(bits) THEN bits[from + width - 1] ELSE 0)
numbersOf(bits, width, fill) ==
    [j \in 1..((Len(bits) + (IF fill THEN width - 1 ELSE 0)) \div width) |->
        valueOf(bits, (j - 1) * width + 1, width)]

lzwEncode(bs) ==
    LET st == codecLoop("/LZWEncode", [w |-> <<>>, dict |-> <<>>, out |-> <<ClearTable>>,
                                       done |-> FALSE],
                        bs, 1, Len(bs))
    IN  Done(numbersOf(allBits(st.out
                               \o (IF st.w = <<>> THEN <<>> ELSE <<lzwCode(st.dict, st.w)>>)
                               \o <<EndOfData>>, LZWWidth),
                       8, TRUE))

lzwEntry(code, prev, dict) ==
    IF code < ClearTable THEN <<code>>
    ELSE IF code - EndOfData <= Len(dict) THEN dict[code - EndOfData]
    ELSE IF code - EndOfData = Len(dict) + 1 /\ prev # <<>> THEN Append(prev, prev[1])
    ELSE <<>>
lzwText(st, code) ==
    IF code = EndOfData THEN Stop(st)
    ELSE IF code = ClearTable THEN [st EXCEPT !.prev = <<>>, !.dict = <<>>]
    ELSE IF lzwEntry(code, st.prev, st.dict) = <<>> THEN Fail(st)
    ELSE [st EXCEPT !.prev = lzwEntry(code, st.prev, st.dict),
                    !.dict = IF st.prev = <<>> THEN @
                             ELSE Append(@, Append(st.prev,
                                                   lzwEntry(code, st.prev, st.dict)[1])),
                    !.out = @ \o lzwEntry(code, st.prev, st.dict)]
lzwDecode(bs) ==
    LET codes == numbersOf(allBits(bs, 8), LZWWidth, FALSE)
        st == codecLoop("/LZWDecode",
                        [prev |-> <<>>, dict |-> <<>>, out |-> <<>>, done |-> FALSE,
                         failed |-> FALSE],
                        codes, 1, Len(codes))
    IN  IF st.failed THEN Failed(LZWError) ELSE Done(st.out)

\* ASCII85: five characters from "!" to "u" stand for four bytes, "z" for
\* four zero bytes, and "~" opens the end mark; a last group of k
\* characters stands for k - 1 bytes.
a85Word(g) ==
    LET hi == (g[1] * 85 + g[2]) * 85 + g[3]
        lo == g[4] * 85 + g[5]
        t == (hi % 65536) * 7225 + lo
        high == (hi \div 65536) * 7225 + t \div 65536
        low == t % 65536
    IN  IF high > 65535 THEN <<>>
        ELSE <<high \div 256, high % 256, low \div 256, low % 256>>
a85(st, c) ==
    IF c = 126 THEN Stop(st)
    ELSE IF c \in WhiteSpace THEN st
    ELSE IF c = 122
    THEN IF st.group = <<>> THEN [st EXCEPT !.out = @ \o <<0, 0, 0, 0>>] ELSE Fail(st)
    ELSE IF c < 33 \/ c > 117 THEN Fail(st)
    ELSE IF Len(st.group) < 4 THEN [st EXCEPT !.group = Append(@, c - 33)]
    ELSE IF a85Word(Append(st.group, c - 33)) = <<>> THEN Fail(st)
    ELSE [st EXCEPT !.group = <<>>, !.out = @ \o a85Word(Append(st.group, c - 33))]
a85End(group, out) ==
    IF group = <<>> THEN Done(out)
    ELSE IF Len(group) = 1 \/ a85Word(group \o [k \in 1..(5 - Len(group)) |-> 84]) = <<>>
    THEN Failed(Ascii85Error)
    ELSE Done(out \o SubSeq(a85Word(group \o [k \in 1..(5 - Len(group)) |-> 84]),
                            1, Len(group) - 1))
ascii85Decode(bs) ==
    LET st == codecLoop("/ASCII85Decode",
                        [group |-> <<>>, out |-> <<>>, done |-> FALSE, failed |-> FALSE],
                        bs, 1, Len(bs))
    IN  IF st.failed THEN Failed(Ascii85Error) ELSE a85End(st.group, st.out)

codecStep(codec, st, c) ==
    IF codec = "base64" THEN a2b_base64(st, c)
    ELSE IF codec = "/ASCIIHexDecode" THEN hexBytes(st, c)
    ELSE IF codec = "/FlateDecode" THEN adler32(st, c)
    ELSE IF codec = "/RunLengthDecode" THEN runLength(st, c)
    ELSE IF codec = "/LZWEncode" THEN lzwCodes(st, c)
    ELSE IF codec = "/LZWDecode" THEN lzwText(st, c)
    ELSE a85(st, c)
codecLoop(codec, st, bs, lo, hi) ==
    IF lo > hi THEN st
    ELSE IF lo = hi THEN codecStep(codec, st, bs[lo])
    ELSE LET half == codecLoop(codec, st, bs, lo, (lo + hi) \div 2) IN
         IF half.done THEN half ELSE codecLoop(codec, half, bs, (lo + hi) \div 2 + 1, hi)

\* A codec works on a buffer.  Given a text, it reads the latin-1 bytes of
\* the text or raises: textAsBytes says which of the two the layer does.
IsBuffer(content, textAsBytes) == IsBytes(content) \/ (IsStr(content) /\ textAsBytes)
bufferOf(content) == IF IsBytes(content) THEN content.bytes ELSE bytesOf(content.str)

\* encodeStream(stream, filter); the console refuses every other filter
\* before the call.
encodeStream(content, filter, textAsBytes) ==
    IF ~IsBuffer(content, textAsBytes) THEN Raised
    ELSE IF filter = "/ASCIIHexDecode" THEN asciiHexEncode(bufferOf(content))
    ELSE IF filter = "/LZWDecode" THEN lzwEncode(bufferOf(content))
    ELSE IF filter = "/FlateDecode" THEN flateEncode(bufferOf(content))
    ELSE Failed(UnsupportedFilter)

\* decodeStream(stream, filter): the fax, image and wavelet filters are not
\* supported.
decodeStream(content, filter, textAsBytes) ==
    IF ~IsBuffer(content, textAsBytes) THEN Raised
    ELSE IF filter = "/ASCIIHexDecode" THEN asciiHexDecode(bufferOf(content))
    ELSE IF filter = "/ASCII85Decode" THEN ascii85Decode(bufferOf(content))
    ELSE IF filter = "/LZWDecode" THEN lzwDecode(bufferOf(content))
    ELSE IF filter = "/FlateDecode" THEN flateDecode(bufferOf(content))
    ELSE IF filter = "/RunLengthDecode" THEN runLengthDecode(bufferOf(content))
    ELSE Failed(UnsupportedFilter)

(***************************************************************************)
(* decode variable|file|string $name|$content $filter1 [$filter2 ...]      *)
(* decode raw $offset $num_bytes $filter1 [$filter2 ...]                   *)
(* encode: the same arguments                                              *)
(***************************************************************************)
codecTypes == {"variable", "file", "raw", "string"}
\* notImplementedFilters of do_decode: the first two literals are adjacent
\* and make one name.
decodeNotImplemented == {"ccittfax" \o "ccf", "jbig2", "dct", "jpx"}
encodeNotImplemented ==
    {"ascii85", "a85", "runlength", "rl", "jbig2", "jpx", "ccittfax", "ccf", "dct"}

IntegersMessage ==
    "[!] Error: " \o Quote2 \o "offset" \o Quote2 \o " and " \o Quote2 \o "num_bytes"
    \o Quote2 \o " must be integers"
ContentEmpty == "[!] Error: The content is empty"
NotImplementedYetDecode(filter) == "[!] Error: Filter " \o filter \o " not implemented yet!"
ErrorMessage(text) == "[!] Error: " \o text

\* The loop over the filter arguments, from argument i on.
RECURSIVE codecFilters(_, _, _, _)
codecFilters(args, i, notImplementedFilters, fileFilters) ==
    IF i > Len(args) THEN [kind |-> "ok", filters |-> fileFilters]
    ELSE IF lower(args[i]) \notin DOMAIN filter2RealFilterDict THEN [kind |-> "help"]
    ELSE IF lower(args[i]) \in notImplementedFilters
    THEN [kind |-> "notImplemented", filter |-> lower(args[i])]
    ELSE codecFilters(args, i + 1, notImplementedFilters, Append(fileFilters, lower(args[i])))

\* getBytesFromFile(path, offset, size): (0, the bytes) or (-1, error)
getBytesFromFile(path, offset, size) ==
    IF path \notin DOMAIN files THEN Failed("File not found")
    ELSE Done(SubSeq(files[path].bytes, offset + 1, Min(offset + size, Len(files[path].bytes))))

\* The content the filters are applied to, or the message that ends the
\* command.
Content(content, calls) == [kind |-> "ok", content |-> content, calls |-> calls]
NoContent(text, calls) == [kind |-> "error", text |-> text, calls |-> calls]
codecSource(srcType, src, offset, size) ==
    IF srcType = "variable"
    THEN IF src \notin DOMAIN variables THEN NoContent(VariableMissing, <<>>)
         ELSE Content(variables[src].cur, <<>>)
    ELSE IF srcType = "file"
    THEN IF src \notin DOMAIN files THEN NoContent(FileMissing, <<>>)
         ELSE Content(files[src], <<>>)
    ELSE IF srcType = "string" THEN Content(PyStr(src), <<>>)
    \* self.pdfFile.getPath() of what a failed open left
    ELSE IF ~IsDocument(pdfFile) THEN [kind |-> "raise"]
    ELSE IF getBytesFromFile(pdfFile.path, offset, size).status = -1
    THEN NoContent(FileMissing, <<Call("getPath", "", NoVersion)>>)
    ELSE Content(getBytesFromFile(pdfFile.path, offset, size).value,
                 <<Call("getPath", "", NoVersion)>>)

\* The result of the loop over the filters.
Coded(content, calls) == [raised |-> FALSE, error |-> "", content |-> content, calls |-> calls]
CodecError(text, calls) ==
    [raised |-> FALSE, error |-> ErrorMessage(text), content |-> PyNone, calls |-> calls]
CodecRaised(calls) == [raised |-> TRUE, error |-> "", content |-> PyNone, calls |-> calls]

\* for fileFilter in filters: of do_decode, in the order of the arguments
RECURSIVE decodeLoopKeeping(_, _, _, _, _)
decodeLoopKeeping(decodedContent, fileFilters, i, calls, textAsBytes) ==
    IF i > Len(fileFilters) THEN Coded(decodedContent, calls)
    ELSE LET realFilter == filter2RealFilterDict[fileFilters[i]] IN
    IF realFilter = "base64"
    THEN LET decoded == b64decode(decodedContent) IN
         IF decoded.status = -1 THEN Coded(decodedContent, calls)
         ELSE decodeLoopKeeping(decoded.value, fileFilters, i + 1, calls, textAsBytes)
    ELSE LET answer == decodeStream(decodedContent, realFilter, textAsBytes)
             called == Append(calls, Call("decodeStream", realFilter, NoVersion))
         IN  IF answer = Raised THEN CodecRaised(called)
             ELSE IF answer.status = -1 THEN Coded(decodedContent, called)
             ELSE decodeLoopKeeping(answer.value, fileFilters, i + 1, called, textAsBytes)

RECURSIVE decodeLoop(_, _, _, _, _)
decodeLoop(decodedContent, fileFilters, i, calls, textAsBytes) ==
    IF i > Len(fileFilters) THEN Coded(decodedContent, calls)
    ELSE LET realFilter == filter2RealFilterDict[fileFilters[i]] IN
    IF realFilter = "base64"
    THEN LET decoded == b64decode(decodedContent) IN
         IF decoded.status = -1 THEN CodecError(decoded.value.str, calls)
         ELSE decodeLoop(decoded.value, fileFilters, i + 1, calls, textAsBytes)
    ELSE LET answer == decodeStream(decodedContent, realFilter, textAsBytes)
             called == Append(calls, Call("decodeStream", realFilter, NoVersion))
         IN  IF answer = Raised THEN CodecRaised(called)
             ELSE IF answer.status = -1 THEN CodecError(answer.value.str, called)
             ELSE decodeLoop(answer.value, fileFilters, i + 1, called, textAsBytes)

\* for fileFilter in filters: of do_encode, in the order of the arguments
RECURSIVE encodeLoop(_, _, _, _, _)
encodeLoop(encodedContent, fileFilters, i, calls, textAsBytes) ==
    IF i > Len(fileFilters) THEN Coded(encodedContent, calls)
    ELSE LET realFilter == filter2RealFilterDict[fileFilters[i]] IN
    IF realFilter = "base64"
    THEN IF b64encode(encodedContent) = Raised THEN CodecRaised(calls)
         ELSE encodeLoop(b64encode(encodedContent), fileFilters, i + 1, calls, textAsBytes)
    ELSE LET answer == encodeStream(encodedContent, realFilter, textAsBytes)
             called == Append(calls, Call("encodeStream", realFilter, NoVersion))
         IN  IF answer = Raised THEN CodecRaised(called)
             ELSE IF answer.status = -1 THEN CodecError(answer.value.str, called)
             ELSE encodeLoop(answer.value, fileFilters, i + 1, called, textAsBytes)

\* self.log_output(command, content, [content], bytesOutput=True), or the
\* way the loop ended before.
coded(p, result) ==
    IF result.raised THEN Raise(p, result.calls)
    ELSE IF result.error # "" THEN ReplyAfter(p, result.error, "False", result.calls)
    ELSE [Base(p) EXCEPT !.outputs = <<LogBytes(p, result.content, <<result.content>>)>>,
                         !.calls = result.calls]

decode(p) ==
    \* if not args: no arguments either
    IF ~p.ok \/ Len(p.args) = 0 THEN {ReplyUsage(p, NotParsedMessage, "decode", "False")}
    ELSE IF Len(p.args) <= 2 \/ p.args[1] \notin codecTypes THEN {Usage(p, "decode", "False")}
    ELSE IF p.args[1] = "raw" /\ pdfFile = NoDocument THEN {Reply(p, MustOpenMessage, "False")}
    ELSE IF p.args[1] = "raw" /\ (~isdigit(p.args[2]) \/ ~isdigit(p.args[3]))
    THEN {Reply(p, IntegersMessage, "False")}
    ELSE
    LET chosen == codecFilters(p.args, IF p.args[1] = "raw" THEN 4 ELSE 3,
                               decodeNotImplemented, <<>>)
        source == codecSource(p.args[1], p.args[2], int(p.args[2]), int(p.args[3]))
    IN  IF chosen.kind = "help" THEN {Usage(p, "decode", "False")}
        ELSE IF chosen.kind = "notImplemented"
        THEN {Reply(p, NotImplementedYetDecode(chosen.filter), "False")}
        ELSE IF source.kind = "raise" THEN {Raise(p, <<>>)}
        ELSE IF source.kind = "error" THEN {ReplyAfter(p, source.text, "False", source.calls)}
        ELSE IF source.content = PyStr("")
        THEN {ReplyAfter(p, ContentEmpty, "False", source.calls)}
        ELSE {coded(p, decodeLoop(source.content, chosen.filters, 1, source.calls, textAsBytes))
              : textAsBytes \in BOOLEAN}

do_decode(argv) == \E o \in decode(parseArgs(argv)) : Step("decode", argv, o)

encode(p) ==
    IF ~p.ok \/ Len(p.args) = 0 THEN {ReplyUsage(p, NotParsedMessage, "encode", "False")}
    ELSE IF Len(p.args) <= 2 \/ p.args[1] \notin codecTypes THEN {Usage(p, "encode", "False")}
    ELSE IF p.args[1] = "raw" /\ pdfFile = NoDocument THEN {Reply(p, MustOpenMessage, "False")}
    ELSE IF p.args[1] = "raw" /\ (~isdigit(p.args[2]) \/ ~isdigit(p.args[3]))
    THEN {Reply(p, IntegersMessage, "False")}
    ELSE
    LET chosen == codecFilters(p.args, IF p.args[1] = "raw" THEN 4 ELSE 3,
                               encodeNotImplemented, <<>>)
        \* size = int(args[1])
        source == codecSource(p.args[1], p.args[2], int(p.args[2]), int(p.args[2]))
    IN  IF chosen.kind = "help" THEN {Usage(p, "encode", "False")}
        ELSE IF chosen.kind = "notImplemented"
        THEN {Reply(p, NotImplementedYet(chosen.filter), "False")}
        ELSE IF source.kind = "raise" THEN {Raise(p, <<>>)}
        ELSE IF source.kind = "error" THEN {ReplyAfter(p, source.text, "False", source.calls)}
        ELSE IF source.content = PyStr("")
        THEN {ReplyAfter(p, ContentEmpty, "False", source.calls)}
        ELSE {coded(p, encodeLoop(source.content, chosen.filters, 1, source.calls, textAsBytes))
              : textAsBytes \in BOOLEAN}

do_encode(argv) == \E o \in encode(parseArgs(argv)) : Step("encode", argv, o)

(***************************************************************************)
(* The filters: an encode command and then a decode command, over every    *)
(* filter name and every chain up to MaxChain, on the content of a file    *)
(* and on a string, or on raw bytes of a document opened before.           *)
(***************************************************************************)
MaxChain == 2

ImplementedNames == {"fl", "lzw", "ahx", "a85", "rl", "b64"}
UnsupportedNames == {"ccittfax", "ccf", "jbig2", "dct", "jpx"}
FilterNames == ImplementedNames \cup UnsupportedNames
\* the names the longer chains are made of
ChainNames == {"fl", "lzw", "ahx", "b64", "jpx"}
Chains == [1..1 -> FilterNames] \cup UNION {[1..n -> ChainNames] : n \in 2..MaxChain}
RECURSIVE ChainText(_)
ChainText(c) == IF c = <<>> THEN "" ELSE " " \o c[1] \o ChainText(Tail(c))

CodecSources == {"file hdr", "string Hi"}
OtherCodecLines ==
    {"", "file hdr", "text hdr b64", "raw 0 1 ahx", "variable nope b64", "file nope b64",
     "file hdr zz", "string '' ahx", "string 'Hi"}
EncodeLines ==
    {s \o ChainText(c) \o " $> v" : s \in CodecSources, c \in Chains}
    \cup {"file hdr FL", "variable header_file b64"} \cup OtherCodecLines
DecodeLines ==
    {"variable v" \o ChainText(c) \o " $> w" : c \in Chains}
    \cup {"string abc " \o f : f \in FilterNames}
    \cup {"string SGk= B64", "string abc ahx jpx"} \cup OtherCodecLines

InitFilters ==
    /\ InitConsole
    /\ cmdLine = NoLine
    /\ env = [JS_MODULE |-> TRUE, use_rawinput |-> TRUE]

\* With a document open the commands take raw bytes of its file.
RawLines == {"raw 0 2 ahx", "raw 1 2 b64 $> v", "raw 0 x ahx", "raw 2 2 fl"}

NextFilters ==
    \/ \E argv \in OpenLines : After({""}) /\ do_open(argv)
    \/ \E argv \in (IF After({"open"}) THEN RawLines ELSE EncodeLines) :
            After({"", "open"}) /\ do_encode(argv)
    \/ \E argv \in (IF IsDocument(pdfFile) THEN RawLines ELSE DecodeLines) :
            After({"", "open", "encode"}) /\ do_decode(argv)

SpecFilters == InitFilters /\ [][NextFilters]_vars

\* What a command told: a text among the lines printed or, under the
\* redirection to the variable w, in that variable.
Told(text) ==
    \/ \E i \in 1..Len(printed) : IsStr(printed[i]) /\ Find(printed[i].str, text) # -1
    \/ /\ "w" \in DOMAIN variables
       /\ IsStr(variables["w"].cur)
       /\ Find(variables["w"].cur.str, text) # -1

\* The decode lines of a named source whose filters are all known to the
\* console and name an unsupported codec somewhere.
UnsupportedGiven(args) ==
    /\ Len(args) > 2
    /\ args[1] \in {"variable", "file", "string"}
    /\ \A i \in 3..Len(args) : lower(args[i]) \in DOMAIN filter2RealFilterDict
    /\ \E i \in 3..Len(args) : lower(args[i]) \in UnsupportedNames

UnsupportedFilters == {filter2RealFilterDict[f] : f \in UnsupportedNames}

\* C2: the decode command, given the name of an unsupported codec
\* (ccittfax, ccf, jbig2, dct, jpx) anywhere in its filter list, ends with
\* a "not implemented" error and passes no content to decodeStream for
\* such a filter.
C2_UnsupportedRefused ==
    (cmdLine.cmd = "decode" /\ UnsupportedGiven(parseArgs(cmdLine.argv).args))
        => /\ Told("not implemented")
           /\ ret = "False"
           /\ \A k \in 1..Len(coreCalls) :
                coreCalls[k].op = "decodeStream" => coreCalls[k].id \notin UnsupportedFilters

\* The content an encode line names, as a buffer.
Given(s) == IF s = "file hdr" THEN files["hdr"].bytes ELSE bytesOf("Hi")
EncodeLine(s, c) == [cmd |-> "encode", argv |-> s \o ChainText(c) \o " $> v"]
DecodeLine(c) == [cmd |-> "decode", argv |-> "variable v" \o ChainText(c) \o " $> w"]
Stored(name, bs) == name \in DOMAIN variables /\ variables[name].cur = PyBytes(bs)

\* C3: for every implemented filter (fl, lzw, ahx, a85, rl, b64) and every
\* non-empty content b, the encode command on b with that single filter
\* succeeds, and the decode command on its output with the same filter
\* returns b.
C3_RoundTrip ==
    [][\A s \in CodecSources, f \in ImplementedNames :
         /\ cmdLine' = EncodeLine(s, <<f>>)
                => ret' = "None" /\ "v" \in DOMAIN variables' /\ IsBytes(variables'["v"].cur)
         /\ (cmdLine = EncodeLine(s, <<f>>) /\ cmdLine' = DecodeLine(<<f>>))
                => (ret' = "None" /\ Stored("w", Given(s))')]_vars

\* The chains of two and more implemented filters.
ImplementedChains == {c \in Chains : Len(c) >= 2 /\ \A i \in 1..Len(c) : c[i] \in ImplementedNames}
DecodeCalls(c) == [i \in 1..Len(c) |-> Call("decodeStream", filter2RealFilterDict[c[i]], NoVersion)]

\* C4: for every chain [f1,...,fn] (n >= 2) of implemented filters and
\* every non-empty content b, the decode command given the filter list of
\* the encode command that produced the content undoes fn first and f1
\* last, and returns b.
C4_ChainInverted ==
    [][\A s \in CodecSources, c \in ImplementedChains :
         (/\ cmdLine = EncodeLine(s, c) /\ ret = "None" /\ "v" \in DOMAIN variables
          /\ cmdLine' = DecodeLine(c))
            => /\ ret' = "None"
               /\ Stored("w", Given(s))'
               /\ ("b64" \notin {c[i] : i \in 1..Len(c)}
                        => coreCalls' = DecodeCalls(Reversed(c)))]_vars

(***************************************************************************)
(* Interactive object construction: modifyObject and addObject.            *)
(*                                                                         *)
(* Both functions stop at every input() until the user has typed a line.   *)
(* build holds the construction in progress: the calls that have not       *)
(* returned yet (innermost last), the call about to be made, the lines the *)
(* user still has to type and, once the outermost call has returned, what  *)
(* it returned.                                                            *)
(***************************************************************************)
\* The objects of the core: a type, a content and, for an array, the
\* elements in order or, for a dictionary or stream, the entries in order.
PDFObject(type, content, elements) ==
    [type |-> type, content |-> content, elements |-> elements]
PDFArray(elements) == PDFObject("array", PyNone, elements)
PDFDictionary(elements) == PDFObject("dictionary", PyNone, elements)
DictEntry(key, value) == [key |-> key, value |-> value]
\* None where an object is expected
NoObject == PDFObject("None", PyNone, <<>>)
IsContainer(obj) == obj.type \in {"array", "dictionary", "stream"}

\* elements[key] = value of a dict: the entry keeps its place when the key
\* is there already
SetItem(elements, key, value) ==
    IF \E i \in 1..Len(elements) : elements[i].key = key
    THEN [i \in 1..Len(elements) |->
            IF elements[i].key = key THEN DictEntry(key, value) ELSE elements[i]]
    ELSE Append(elements, DictEntry(key, value))

dictNumType ==
    [res \in {"1", "2", "3", "4", "5", "6", "7", "8", "9"} |->
        IF res = "1" THEN "boolean" ELSE IF res = "2" THEN "number"
        ELSE IF res = "3" THEN "string" ELSE IF res = "4" THEN "hexstring"
        ELSE IF res = "5" THEN "name" ELSE IF res = "6" THEN "reference"
        ELSE IF res = "7" THEN "null" ELSE IF res = "8" THEN "array" ELSE "dictionary"]

\* int(s) and float(s) succeed; the lines typed here hold no blanks,
\* underscores or exponents
Unsigned(s) == IF s # "" /\ CharAt(s, 0) \in {"+", "-"} THEN From(s, 1) ELSE s
IsIntLiteral(s) == isdigit(Unsigned(s))
IsFloatLiteral(s) ==
    LET u == Unsigned(s)
        dot == Find(u, ".")
    IN  /\ dot # -1
        /\ Len(u) > 1
        /\ AllDigits(Slice(u, 0, dot))
        /\ AllDigits(From(u, dot + 1))

\* re.findall("\\(\d{1,3})"): the digits, three at most, after a backslash
OctalAt(s, k) ==
    LET run == {n \in 1..3 : \A j \in 1..n : isdigit(CharAt(s, k + j))}
    IN  IF run = {} THEN "" ELSE Slice(s, k + 1, k + 1 + Cardinality(run))
IsOctal(s) == \A k \in 0..(Len(s) - 1) : CharAt(s, k) \notin {"8", "9"}
IsHex(s) == \A k \in 0..(Len(s) - 1) : Find("0123456789abcdefABCDEF", CharAt(s, k)) # -1

\* (without the NUL character, which no line typed holds)
spacesChars == {"\t", "\n", "\f", "\r", " "}
demilimiterChars == {"(", "<", "[", "{", "/", "%"}

\* re.match("\d{1,10}\s\d{1,10}\sR", s, re.IGNORECASE) for blanks as spaces
IsReference(s) ==
    LET parts == Split(s, " ") IN
    /\ Len(parts) >= 3
    /\ isdigit(parts[1]) /\ Len(parts[1]) <= 10
    /\ isdigit(parts[2]) /\ Len(parts[2]) <= 10
    /\ lower(CharAt(parts[3], 0)) = "r"

\* checkInputContent(objectType, objectContent): the content, None, or
\* Raised where the code raises.  The content is the str typed by the user
\* or the bytes read from the content file; on bytes the str methods and
\* patterns raise TypeError, which only the number branch catches.
checkInputContent(objectType, objectContent) ==
    IF IsBytes(objectContent) THEN
        IF objectType \in {"bool", "number", "null"} THEN PyNone
        ELSE IF objectType = "name" /\ objectContent.bytes = <<>> THEN Raised
        ELSE IF objectType \in {"string", "hexstring", "name", "reference"} THEN Raised
        ELSE objectContent
    ELSE LET s == objectContent.str IN
    IF objectType = "bool"
    THEN IF lower(s) \in {"true", "false"} THEN PyStr(lower(s)) ELSE PyNone
    ELSE IF objectType = "number"
    THEN IF (IF Find(s, ".") # -1 THEN IsFloatLiteral(s) ELSE IsIntLiteral(s))
         THEN objectContent ELSE PyNone
    ELSE IF objectType = "string"
    THEN IF \A k \in 0..(Len(s) - 1) : CharAt(s, k) = "\\" => IsOctal(OctalAt(s, k))
         THEN objectContent ELSE PyNone
    ELSE IF objectType = "hexstring"
    THEN IF IsHex(Replace(Replace(s, "<", ""), ">", ""))
         THEN PyStr(Replace(Replace(s, "<", ""), ">", "")) ELSE PyNone
    ELSE IF objectType = "name"
    THEN IF s = "" THEN Raised
         ELSE LET name == IF CharAt(s, 0) = "/" THEN From(s, 1) ELSE s IN
              IF \E k \in 0..(Len(name) - 1) :
                    CharAt(name, k) \in spacesChars \cup demilimiterChars
              THEN PyNone ELSE PyStr("/" \o name)
    ELSE IF objectType = "reference"
    THEN IF IsReference(s) THEN PyStr(Replace(s, "r", "R")) ELSE PyNone
    ELSE IF objectType = "null"
    THEN IF lower(s) = "null" THEN PyStr("null") ELSE PyNone
    ELSE objectContent

\* PDFBool(content) ... PDFNull(content) of addObject; the reference is
\* made of the first two words of the content
newObject(objectType, content) ==
    IF objectType = "boolean" THEN PDFObject("bool", content, <<>>)
    ELSE IF objectType = "number"
    THEN PDFObject(IF Find(content.str, ".") # -1 THEN "real" ELSE "integer", content, <<>>)
    ELSE IF objectType = "reference"
    THEN PDFObject("reference",
                   PyStr(Split(content.str, " ")[1] \o " " \o Split(content.str, " ")[2] \o " R"),
                   <<>>)
    ELSE PDFObject(objectType, content, <<>>)

\* The default of the maxDepth parameter of both functions.
maxDepth == 10

ObjectTooNested == "Object too nested"
TypeNotValid == "Object type not valid"
ContentNotValid == "[!] Error: Content not valid for the object type"
OptionNotValid == "Option not valid"
StringTypeNotValid == "[!] Error: The string type is not valid"
NestedStreams == "Nested streams are not permitted"

\* if iteration > maxDepth: the first statement of both functions
TooNestedBeyond(iteration) == iteration > maxDepth + 1
TooNested(iteration) == iteration > maxDepth

\* A call that has not returned: the function, its object and iteration,
\* the objectType (newObjectType) it works with, the input() or call it
\* stands at, the element of the object the for loop is at, the elements
\* collected so far, and the key typed for the next entry.
Frame(fn, obj, iteration) ==
    [fn |-> fn, obj |-> obj, iteration |-> iteration, type |-> obj.type, at |-> "",
     todo |-> 1, elements |-> <<>>, key |-> PyNone]

\* return (-1, text): every caller tests ret[0] == -1 and returns ret in
\* its turn, up to the outermost call
Failure(b, text) == [b EXCEPT !.phase = "returned", !.stack = <<>>, !.returned = <<-1, text>>]
\* an exception leaves all the calls
Throw(b) == [b EXCEPT !.phase = "raised", !.stack = <<>>]
\* the call stands at an input()
Waiting(b, rest, frame) == [b EXCEPT !.phase = "input", !.stack = Append(rest, frame)]
\* the call calls fn(obj, iteration)
Calling(b, rest, frame, fn, obj, iteration) ==
    [b EXCEPT !.phase = "call", !.stack = Append(rest, frame),
              !.pending = [fn |-> fn, obj |-> obj, iteration |-> iteration]]

\* modifyObject on an array, dictionary or stream: the for loop over the
\* elements of the object, and after it the while loop that adds elements
Resume(b, rest, frame) ==
    IF frame.todo <= Len(frame.obj.elements)
    THEN IF frame.type = "array"
         THEN Calling(b, rest, [frame EXCEPT !.at = "element"],
                      "modifyObject", frame.obj.elements[frame.todo], frame.iteration + 1)
         ELSE Waiting(b, rest, [frame EXCEPT !.at = "entry"])
    ELSE Waiting(b, rest, [frame EXCEPT !.at = "more"])

\* return (0, value) to the caller, which stands at one of its calls
Return(b, rest, value) ==
    IF rest = <<>>
    THEN [b EXCEPT !.phase = "returned", !.stack = <<>>, !.returned = <<0, value>>]
    ELSE LET caller == rest[Len(rest)]
             below == SubSeq(rest, 1, Len(rest) - 1)
         IN  IF caller.at = "element"
             THEN Resume(b, below,
                         [caller EXCEPT !.todo = @ + 1,
                                        !.elements = IF value = NoObject THEN @
                                                     ELSE Append(@, value)])
             ELSE IF caller.at = "modified"
             THEN Resume(b, below,
                         [caller EXCEPT !.todo = @ + 1,
                                        !.elements = SetItem(@, caller.obj.elements[caller.todo].key,
                                                             value)])
             ELSE Waiting(b, below,
                          [caller EXCEPT !.at = "more",
                                         !.elements = IF caller.type = "array"
                                                      THEN Append(@, value)
                                                      ELSE SetItem(@, caller.key, value)])

additionRequest(res) == IF lower(res) \in {"y", "n"} THEN PyStr(lower(res)) ELSE PyNone
modifyRequest(res) == IF lower(res) \in {"m", "d", "n"} THEN PyStr(lower(res)) ELSE PyNone

\* The while loop of an array or dictionary, after the answer to
\* additionRequest.
more(b, rest, frame, res) ==
    IF additionRequest(res) = PyNone THEN Failure(b, OptionNotValid)
    ELSE IF additionRequest(res) = PyStr("y")
    THEN IF frame.type = "array"
         THEN Calling(b, rest, [frame EXCEPT !.at = "added"],
                      "addObject", NoObject, frame.iteration + 1)
         ELSE Waiting(b, rest, [frame EXCEPT !.at = "key"])
    ELSE Return(b, rest,
                IF frame.fn = "modifyObject" THEN [frame.obj EXCEPT !.elements = frame.elements]
                ELSE IF frame.type = "array" THEN PDFArray(frame.elements)
                ELSE PDFDictionary(frame.elements))

\* After input("Name object: "): the key is checked, then the object of
\* the entry is asked for.
named(b, rest, frame, res) ==
    IF checkInputContent("name", PyStr(res)) = Raised THEN Throw(b)
    ELSE Calling(b, rest,
                 [frame EXCEPT !.at = "added", !.key = checkInputContent("name", PyStr(res))],
                 "addObject", NoObject, frame.iteration + 1)

\* addObject up to its first input().
addObjectCalled(b) ==
    IF TooNested(b.pending.iteration) THEN Failure(b, ObjectTooNested)
    ELSE Waiting(b, b.stack,
                 [Frame("addObject", NoObject, b.pending.iteration) EXCEPT !.at = "type"])

\* addObject after the line res typed at the input() it stands at.
addObjectInput(b, rest, frame, res) ==
    IF frame.at = "type"
    THEN IF ~isdigit(res) \/ int(res) < 1 \/ int(res) > 9 THEN Failure(b, TypeNotValid)
         \* dictNumType[res] of a res such as "08"
         ELSE IF res \notin DOMAIN dictNumType THEN Throw(b)
         ELSE Waiting(b, rest,
                      [frame EXCEPT !.type = dictNumType[res],
                                    !.at = IF dictNumType[res] \in {"array", "dictionary"}
                                           THEN "more" ELSE "content"])
    ELSE IF frame.at = "content"
    THEN LET content == checkInputContent(frame.type, PyStr(res)) IN
         IF content = Raised THEN Throw(b)
         ELSE IF content = PyNone THEN Failure(b, ContentNotValid)
         ELSE Return(b, rest, newObject(frame.type, content))
    ELSE IF frame.at = "more" THEN more(b, rest, frame, res)
    ELSE named(b, rest, frame, res)

\* modifyObject with the new content of an object that is no container.
modified(b, rest, frame, content) ==
    LET checked == checkInputContent(frame.type, content) IN
    IF checked = Raised THEN Throw(b)
    ELSE IF checked = PyNone THEN Failure(b, ContentNotValid)
    ELSE IF frame.type # frame.obj.type /\ frame.type \in {"string", "hexstring"}
    THEN Return(b, rest, PDFObject(frame.type, checked, <<>>))
    \* object.setValue(content), object.setRawValue(content)
    ELSE Return(b, rest, [frame.obj EXCEPT !.content = checked])

\* modifyObject up to its first input() or call.
modifyObjectCalled(b) ==
    LET obj == b.pending.obj
        iteration == b.pending.iteration
        frame == Frame("modifyObject", obj, iteration)
    IN  IF TooNested(iteration) THEN Failure(b, ObjectTooNested)
        ELSE IF ~IsContainer(obj)
        THEN IF b.contentFile # <<>> /\ iteration = 0
             THEN modified(b, b.stack, frame, files[b.contentFile[1]])
             ELSE IF obj.type \in {"string", "hexstring"}
             THEN Waiting(b, b.stack, [frame EXCEPT !.at = "stringType"])
             ELSE Waiting(b, b.stack,
                          [frame EXCEPT !.type = IF obj.type \in {"integer", "real"}
                                                 THEN "number" ELSE obj.type,
                                        !.at = IF iteration = 0 THEN "content" ELSE "request"])
        ELSE IF obj.type = "stream"
        THEN IF iteration = 0 THEN Waiting(b, b.stack, [frame EXCEPT !.at = "stream"])
             ELSE Failure(b, NestedStreams)
        ELSE Resume(b, b.stack, frame)

\* modifyObject after the line res typed at the input() it stands at.
modifyObjectInput(b, rest, frame, res) ==
    IF frame.at = "stringType"
    THEN IF res \notin {"1", "2"} THEN Failure(b, StringTypeNotValid)
         ELSE Waiting(b, rest,
                      [frame EXCEPT !.type = IF res = "1" THEN "string" ELSE "hexstring",
                                    !.at = IF frame.iteration = 0 THEN "content" ELSE "request"])
    ELSE IF frame.at = "request"
    THEN IF modifyRequest(res) = PyStr("d") THEN Return(b, rest, NoObject)
         ELSE IF modifyRequest(res) = PyStr("m")
         THEN Waiting(b, rest, [frame EXCEPT !.at = "content"])
         ELSE Return(b, rest, frame.obj)
    ELSE IF frame.at = "content" THEN modified(b, rest, frame, PyStr(res))
    ELSE IF frame.at = "stream"
    THEN IF modifyRequest(res) = PyStr("d")
         THEN Resume(b, rest, [frame EXCEPT !.obj.content = PyStr("")])
         ELSE IF modifyRequest(res) = PyStr("m")
         THEN IF b.contentFile # <<>>
              THEN Resume(b, rest, [frame EXCEPT !.obj.content = files[b.contentFile[1]]])
              ELSE Waiting(b, rest, [frame EXCEPT !.at = "streamContent"])
         ELSE Resume(b, rest, frame)
    ELSE IF frame.at = "streamContent"
    THEN Resume(b, rest, [frame EXCEPT !.obj.content = PyStr(res)])
    ELSE IF frame.at = "entry"
    THEN LET entry == frame.obj.elements[frame.todo] IN
         IF modifyRequest(res) = PyStr("n")
         THEN Resume(b, rest, [frame EXCEPT !.todo = @ + 1,
                                            !.elements = SetItem(@, entry.key, entry.value)])
         ELSE IF modifyRequest(res) = PyStr("m")
         THEN Calling(b, rest, [frame EXCEPT !.at = "modified"],
                      "modifyObject", entry.value, frame.iteration + 1)
         ELSE Resume(b, rest, [frame EXCEPT !.todo = @ + 1])
    ELSE IF frame.at = "more" THEN more(b, rest, frame, res)
    ELSE named(b, rest, frame, res)

(***************************************************************************)
(* The constructions explored.  The user nests at most MaxNest arrays and  *)
(* dictionaries in one another, all arrays, all dictionaries or in turn,   *)
(* and then types one of a few endings.                                    *)
(***************************************************************************)
MaxNest == 11

NestKinds == {"array", "dictionary", "mixed"}
KindAt(nest, i) ==
    IF nest = "mixed" THEN (IF i % 2 = 0 THEN "array" ELSE "dictionary") ELSE nest

\* the lines that make addObject build an array or dictionary and ask for
\* its first element
Opening(kind) == IF kind = "array" THEN <<"8", "y">> ELSE <<"9", "y", "K">>
RECURSIVE OpensFrom(_, _, _)
OpensFrom(nest, i, k) ==
    IF k = 0 THEN <<>> ELSE Opening(KindAt(nest, i)) \o OpensFrom(nest, i + 1, k - 1)
Closes(n) == [i \in 1..n |-> "n"]

AddEndings ==
    {<<"2", "1">>, <<"2", "x">>, <<"7", "null">>, <<"6", "1 0 r">>, <<"8", "n">>, <<"9", "n">>,
     <<"0">>, <<"08">>, <<"8", "q">>, <<"9", "y", "">>,
     <<"8", "y", "2", "1", "y", "2", "2.5", "n">>,
     <<"9", "y", "K", "2", "1", "y", "/K", "1", "true", "y", "a b", "7", "null", "n">>}
AddScripts ==
    {OpensFrom(nest, 0, k) \o ending \o Closes(k) :
        nest \in NestKinds, k \in 0..MaxNest, ending \in AddEndings}

\* The objects handed to modifyObject are those the parser of the core
\* built: their arrays and dictionaries nest no deeper than maxDepth.
Number == PDFObject("integer", PyStr("1"), <<>>)
Container(kind, objs) ==
    IF kind = "array" THEN PDFArray(objs)
    ELSE PDFDictionary([i \in 1..Len(objs) |-> DictEntry(PyStr("/K"), objs[i])])
\* d arrays and dictionaries in one another, built from level i outwards
RECURSIVE Around(_, _, _)
Around(nest, i, obj) ==
    IF i = 0 \/ ~IsContainer(obj) THEN obj
    ELSE Around(nest, i - 1, Container(KindAt(nest, i - 1), <<obj>>))
Nested(nest, d, inner) == Around(nest, d - 1, Container(KindAt(nest, d - 1), inner))
ParsedDepths == 1..Min(MaxNest, maxDepth + 1)
StreamObject ==
    PDFObject("stream", PyStr("data"), <<DictEntry(PyStr("/Length"), PDFObject("integer", PyStr("4"), <<>>))>>)
PlainObjects ==
    {Number, PDFObject("real", PyStr("1.5"), <<>>), PDFObject("string", PyStr("a"), <<>>),
     PDFObject("name", PyStr("/N"), <<>>), PDFObject("bool", PyStr("true"), <<>>)}

\* the answers that lead modifyObject into the dictionaries above level d
RECURSIVE Into(_, _, _)
Into(nest, i, d) ==
    IF i >= d - 1 THEN <<>>
    ELSE (IF KindAt(nest, i) = "dictionary" THEN <<"m">> ELSE <<>>) \o Into(nest, i + 1, d)

Editing(obj, contentFile, script) ==
    [obj |-> obj, contentFile |-> contentFile, script |-> script]
ModifyEndings == {<<"2", "1">>, <<"8", "n">>, <<"9", "n">>, <<"8", "q">>}
RequestEndings == {<<"n">>, <<"d">>, <<"m", "7">>, <<"m", "x">>, <<"q">>}
PlainScripts == {<<"5">>, <<"x">>, <<"1", "abc">>, <<"2", "4a">>, <<"2", "zz">>, <<"3">>, <<"true">>}
StreamScripts ==
    {<<"d", "n", "n">>, <<"n", "m", "m", "8", "n">>, <<"m", "new", "d", "y", "L", "2", "3", "n">>,
     <<"m", "m", "m", "9", "n", "n">>}
ModifySessions ==
    {Editing(obj, contentFile, script) :
        obj \in PlainObjects, contentFile \in {<<>>, <<"hdr">>}, script \in PlainScripts}
    \cup {Editing(StreamObject, contentFile, script) :
            contentFile \in {<<>>, <<"hdr">>}, script \in StreamScripts}
    \cup UNION {UNION {{Editing(Nested(nest, d, <<>>), <<>>,
                                Into(nest, 0, d) \o Tail(Opening(KindAt(nest, d - 1)))
                                \o OpensFrom(nest, d, k) \o ending \o Closes(k + d)) :
                            k \in 0..(MaxNest - d), ending \in ModifyEndings}
                       \cup {Editing(Nested(nest, d, <<>>), <<>>, Into(nest, 0, d) \o Closes(d))}
                       \cup {Editing(Nested(nest, d, <<Number>>), <<>>,
                                     Into(nest, 0, d + 1) \o ending \o Closes(d)) :
                                ending \in RequestEndings}
                       : d \in ParsedDepths} : nest \in NestKinds}

NotBuilding ==
    <<pdfFile, variables, redirect, outputVarName, outputFileName, files, printed, coreCalls,
      ret, cmdLine, history, env, leaving>>

Construction(fn, obj, contentFile, script) ==
    [phase |-> "call", stack |-> <<>>,
     pending |-> [fn |-> fn, obj |-> obj, iteration |-> 0],
     contentFile |-> contentFile, script |-> script, calls |-> {}, returned |-> <<>>]

\* ret = self.modifyObject(object, 0, contentFile) of do_modify
callModifyObject(obj, contentFile, script) ==
    /\ build = Idle
    /\ build' = Construction("modifyObject", obj, contentFile, script)
    /\ UNCHANGED NotBuilding

\* addObject(0)
callAddObject(script) ==
    /\ build = Idle
    /\ build' = Construction("addObject", NoObject, <<>>, script)
    /\ UNCHANGED NotBuilding

Called(b) == [b EXCEPT !.calls = @ \cup {[fn |-> b.pending.fn, iteration |-> b.pending.iteration]}]

modifyObject ==
    /\ build.phase = "call"
    /\ build.pending.fn = "modifyObject"
    /\ build' = modifyObjectCalled(Called(build))
    /\ UNCHANGED NotBuilding

addObject ==
    /\ build.phase = "call"
    /\ build.pending.fn = "addObject"
    /\ build' = addObjectCalled(Called(build))
    /\ UNCHANGED NotBuilding

\* input(message): the user types the next line, and the call that asked
\* for it goes on to its next input(), call or return
input ==
    /\ build.phase = "input"
    /\ build.script # <<>>
    /\ LET b == [build EXCEPT !.script = Tail(@)]
           frame == build.stack[Len(build.stack)]
           rest == SubSeq(build.stack, 1, Len(build.stack) - 1)
           res == Head(build.script)
       IN  build' = IF frame.fn = "addObject" THEN addObjectInput(b, rest, frame, res)
                    ELSE modifyObjectInput(b, rest, frame, res)
    /\ UNCHANGED NotBuilding

InitObjects ==
    InitConsole /\ cmdLine = NoLine /\ env = [JS_MODULE |-> TRUE, use_rawinput |-> TRUE]

NextObjects ==
    \/ \E s \in ModifySessions : callModifyObject(s.obj, s.contentFile, s.script)
    \/ \E script \in AddScripts : callAddObject(script)
    \/ modifyObject
    \/ addObject
    \/ input

SpecObjects == InitObjects /\ [][NextObjects]_vars

(***************************************************************************)
(* C5.  Whatever the user types, modifyObject and addObject entered at     *)
(* iteration 0 hold to the maximum nesting depth of 10.  The level of an   *)
(* array or dictionary is the number of arrays and dictionaries around it, *)
(* which is the iteration of the call that builds it; the object entered   *)
(* is at level 0.  No object returned with status 0 holds an array or      *)
(* dictionary beyond level 10, and a call made beyond iteration 10 ends    *)
(* the outermost call with (-1, "Object too nested").                      *)
(***************************************************************************)
Inside(obj) ==
    IF obj.type = "array" THEN {obj.elements[i] : i \in 1..Len(obj.elements)}
    ELSE {obj.elements[i].value : i \in 1..Len(obj.elements)}
\* the deepest level of an array or dictionary below the objects objs,
\* which are at level n
RECURSIVE Deepest(_, _)
Deepest(objs, n) ==
    LET nested == {e \in UNION {Inside(obj) : obj \in objs} : IsContainer(e)} IN
    IF nested = {} THEN n ELSE Deepest(nested, n + 1)
Levels(obj) == IF IsContainer(obj) THEN Deepest({obj}, 0) ELSE 0

ReturnedObject == build.phase = "returned" /\ build.returned[1] = 0
WentDeeper == build.phase # "idle" /\ \E c \in build.calls : c.iteration > maxDepth

C5_NestingBounded ==
    /\ ReturnedObject => Levels(build.returned[2]) <= maxDepth
    /\ WentDeeper => build.phase = "returned" /\ build.returned = <<-1, ObjectTooNested>>

C5_Witness == ReturnedObject /\ Levels(build.returned[2]) = maxDepth

(***************************************************************************)
(* Command lines that end with a redirection.                              *)
(***************************************************************************)
MaxRedirected == 3

Redirections ==
    {" > out", " >> out", " >> hdr", " $> v", " $>> v", " $>> vt_key",
     " $>> output_limit", " $>> header_file"}
RedirectedResets == {"nope" \o t : t \in Redirections}
RedirectedDecodes == {"string 4869 ahx" \o t : t \in {" > out", " >> hdr", " $> v", " $>> v"}}
RedirectedAnalyses == {"string a" \o t : t \in {" > out", " >> out", " $> v", " $>> v"}}

InitRedirect ==
    /\ InitConsole
    /\ cmdLine = NoLine
    /\ env = [JS_MODULE |-> TRUE, use_rawinput |-> TRUE]

NextRedirect ==
    \/ \E argv \in RedirectedResets : Session(MaxRedirected) /\ do_reset(argv)
    \/ \E argv \in RedirectedDecodes : Session(MaxRedirected) /\ do_decode(argv)
    \/ \E argv \in OpenLines : After({""}) /\ do_open(argv)
    \/ \E argv \in RedirectedAnalyses : Session(MaxRedirected) /\ do_js_analyse(argv)

SpecRedirect == InitRedirect /\ [][NextRedirect]_vars

\* The buffers a call of log_output has to save, and a buffer as the bytes
\* of a file.
BuffersOf(call) == IF call.hasBytes THEN call.bytes ELSE <<niceOutputOf(call.output)>>
AsFileBytes(b) ==
    IF IsBytes(b) THEN b.bytes ELSE IF IsStr(b) THEN bytesOf(b.str) ELSE b.shown
FileBytes(fs, name) == IF name \in DOMAIN fs THEN fs[name].bytes ELSE <<>>

\* Buffer i of the call is where its redirection names it: vs and fs are the
\* variables and files before the call, ws and gs those after it.
Delivered(call, i, vs, fs, ws, gs) ==
    LET b == BuffersOf(call)[i + 1]
        r == call.r
        name == TargetName(IF r.redirect \in {FILE_WRITE, FILE_ADD}
                           THEN r.outputFileName.str ELSE r.outputVarName.str, i)
    IN  IF r.redirect = FILE_WRITE
        THEN name \in DOMAIN gs /\ gs[name] = PyBytes(AsFileBytes(b))
        ELSE IF r.redirect = FILE_ADD
        THEN name \in DOMAIN gs /\ gs[name] = PyBytes(FileBytes(fs, name) \o AsFileBytes(b))
        ELSE IF r.redirect = VAR_WRITE \/ name \notin DOMAIN vs
        THEN name \in DOMAIN ws /\ ws[name].cur = b /\ ws[name].def = b
        ELSE /\ name \in DOMAIN ws
             /\ ws[name].def = vs[name].def
             /\ IAdd(vs[name].cur, b) # Raised => ws[name].cur = IAdd(vs[name].cur, b)

\* The command made one call of log_output, under a redirection.
RedirectedCall ==
    /\ Len(history'.logged) = 1
    /\ history'.logged[1].r.redirect # NoRedirect

\* C11: under a redirection log_output prints nothing and delivers every
\* buffer to its target: buffer 0 to the named variable or file, buffer i to
\* <name>_i; $> sets the current and the default value, $>> appends to the
\* current value of an existing variable and keeps its default, > writes
\* the file and >> appends to it.
C11_RedirectDelivers ==
    [][RedirectedCall =>
          /\ ret' # "raised"
          /\ printed' = <<>>
          /\ \A i \in 0..(Len(BuffersOf(history'.logged[1])) - 1) :
                Delivered(history'.logged[1], i, variables, files, variables', files')]_vars

(***************************************************************************)
(* reset $var_name between the commands that assign variables.             *)
(***************************************************************************)
MaxResets == 4

AssignLines == {"x a", "x b", "output_limit 7", "output_limit -1", "vt_key k"}
RestoreLines ==
    {"x", "output_limit", "malformed_options", "header_file", "vt_key", "nope",
     "nope $> x", "nope $>> malformed_options"}
EstablishLines == {"2 3", "6 hdr", "0"}

NextReset ==
    \/ \E argv \in AssignLines : Session(MaxResets) /\ do_set(argv)
    \/ \E argv \in RestoreLines : Session(MaxResets) /\ do_reset(argv)
    \/ \E argv \in EstablishLines : Session(MaxResets) /\ do_malformed_output(argv)

SpecReset == InitVariablesSpec /\ [][NextReset]_vars

\* The step is reset var, of a variable that exists, with no redirection.
ResetOf(var) ==
    /\ var \in DOMAIN variables
    /\ cmdLine' = [cmd |-> "reset", argv |-> var]

\* The value the variable had first: from the constructor, or the one it was
\* created with.
InitialValue(var) ==
    IF var \in DOMAIN InitVariables THEN InitVariables[var].cur ELSE history.first[var]

ResetNames == {"x", "output_limit", "malformed_options", "header_file", "vt_key"}

\* C12 (as stated): reset var leaves as the current value of var the value
\* of the constructor (built-in variables) or the first value assigned (a
\* variable the user created), whatever commands ran before, and a second
\* reset changes nothing.
C12_ResetRestoresInitial ==
    [][\A var \in ResetNames :
          ResetOf(var) =>
              /\ variables'[var].cur = InitialValue(var)
              /\ cmdLine' = cmdLine => variables' = variables]_vars

\* C12 (amended): reset var makes the stored default of var its current
\* value and leaves the default and every other variable; a second reset
\* changes nothing; set leaves the default of every existing variable.  The
\* stored default is the value of the constructor or of the creation only
\* until malformed_output or a redirection to the variable replaces it.
C12_ResetRestoresStored ==
    [][/\ \A var \in ResetNames :
             ResetOf(var) =>
                 /\ variables'[var].cur = variables[var].def
                 /\ variables'[var].def = variables[var].def
                 /\ \A n \in DOMAIN variables \ {var} : variables'[n] = variables[n]
                 /\ DOMAIN variables' = DOMAIN variables
                 /\ cmdLine' = cmdLine => variables' = variables
       /\ cmdLine'.cmd = "set" /\ cmdLine'.argv \in AssignLines =>
             \A n \in DOMAIN variables : variables'[n].def = variables[n].def]_vars

\* A reset, at the end of a session, that restored a default established
\* after the constructor.
C12_Witness ==
    /\ cmdLine = [cmd |-> "reset", argv |-> "header_file"]
    /\ variables["header_file"].cur = PyStr("hdr")
    /\ history.commands = MaxResets

(***************************************************************************)
(* The paging of log_output: with output_limit neither None nor -1, and    *)
(* raw input in use, the lines are printed limit at a time and the user is *)
(* asked before each further page.                                         *)
(***************************************************************************)
MaxLines == 4

\* The times input() is called for an output of n lines when the user goes
\* on to the end; with a limit of 0 no line is ever taken and the asking
\* does not end.
Unending == -1
prompts(limit, n, use_rawinput) ==
    IF IsNone(limit) \/ limit = PyInt(-1) \/ ~use_rawinput THEN 0
    ELSE IF n = 0 THEN 0
    ELSE IF limit.int = 0 THEN Unending
    ELSE (n + limit.int - 1) \div limit.int - 1

\* C13: set output_limit -1 is accepted and stores -1 as the current value,
\* after which log_output prints an output of any number of lines in one
\* piece, without asking.
C13_NoLimitAccepted ==
    cmdLine = [cmd |-> "set", argv |-> "output_limit -1"] =>
        /\ ret = "None"
        /\ printed = <<>>
        /\ variables["output_limit"].cur = PyInt(-1)
        /\ \A n \in 0..MaxLines : prompts(variables["output_limit"].cur, n, env.use_rawinput) = 0

(***************************************************************************)
(* filters with several filters: the /Filter the stream is given, and the  *)
(* order in which the filter pipeline of the core applies it.              *)
(***************************************************************************)
MaxDeclared == 3

DeclaredNames == {"fl", "ahx", "lzw", "none"}
RECURSIVE DeclaredLines(_)
DeclaredLines(n) ==
    IF n = 0 THEN {"1"}
    ELSE LET shorter == DeclaredLines(n - 1)
         IN  shorter \cup {l \o " " \o f : l \in shorter, f \in DeclaredNames}

InitDeclared ==
    /\ InitConsole
    /\ cmdLine = NoLine
    /\ env = [JS_MODULE |-> TRUE, use_rawinput |-> TRUE]
NextDeclared ==
    \/ After({""}) /\ do_open("a.pdf")
    \/ \E argv \in DeclaredLines(MaxDeclared) : After({"open"}) /\ do_filters(argv)
SpecDeclared == InitDeclared /\ [][NextDeclared]_vars

\* The filter pipeline of the core: encoding applies the declared filters
\* in the declared order (decoding inverts it).
encodeSteps(declared) == declared

\* The filters named on the command line (after the object id), and the
\* /Filter array the command set.
NamedFilters == LET args == parseArgs(cmdLine.argv).args IN filtersInOrder(SubSeq(args, 2, Len(args)))
SeveralNamed ==
    cmdLine.cmd = "filters" /\ ret = "None" /\ Len(parseArgs(cmdLine.argv).args) > 2
DeclaredSet == {coreCalls[i].value : i \in {k \in DOMAIN coreCalls : coreCalls[k].op = "setElement"}}

\* C14: after filters with two or more filter names, the first filter named
\* (none left out) is the first one applied when the payload is encoded
\* with the /Filter list the command set.
C14_FirstNamedEncodesFirst ==
    SeveralNamed =>
        \A declared \in DeclaredSet :
            encodeSteps(declared)[1] = filter2RealFilterDict[NamedFilters[1]]

\* C15: xor_search with -i in front of otherwise valid arguments, whatever
\* the form of the source, makes the search and reports its result: the
\* command line is not rejected with the usage.
C15_InsensitiveAccepted ==
    (cmdLine.cmd = "xor_search" /\ cmdLine.argv \in InsensitiveLines) =>
        \A i \in DOMAIN printed : printed[i] # [help |-> "xor_search"]

\* The bytes of the open file that bytes and decode raw read for an offset
\* and a number of bytes, and what the filters of the line make of them.
RawRange(args) == getBytesFromFile(pdfFile.path, int(args[2]), int(args[3])).value
RawEncoded(args, textAsBytes) ==
    encodeLoop(RawRange(args), codecFilters(args, 4, encodeNotImplemented, <<>>).filters, 1,
               <<>>, textAsBytes).content

\* C16: encode raw offset num_bytes filter... encodes the num_bytes bytes of
\* the open file that start at offset: its output, on the console or in the
\* variable of the redirection, is the encoding of that range.
C16_EncodeRawRange ==
    (cmdLine.cmd = "encode" /\ cmdLine.argv \in RawLines /\ ret = "None") =>
        LET p == parseArgs(cmdLine.argv) IN
        \E textAsBytes \in BOOLEAN :
            IF p.redirect = VAR_WRITE
            THEN variables[p.outputVarName.str].cur = RawEncoded(p.args, textAsBytes)
            ELSE printed = <<niceOutputOf(RawEncoded(p.args, textAsBytes))>>

(***************************************************************************)
(* malformed_output with options, the option 0 and header files, after a   *)
(* malformed_output that left other values, or none.                       *)
(***************************************************************************)
MaxTokens == 3

EnableTokens == {"0", "1", "2", "3", "7", "hdr"}
RECURSIVE EnableLines(_)
EnableLines(n) ==
    IF n = 1 THEN EnableTokens
    ELSE LET shorter == EnableLines(n - 1)
         IN  shorter \cup {l \o " " \o tok : l \in shorter, tok \in EnableTokens}
RedirectedEnables == {"0 $> header_file", "3 0 $>> malformed_options", "3 0 hdr $> v"}

PriorEnables == {"2 3 hdr", "1", "7"}

NextEnable ==
    \/ \E argv \in PriorEnables : history.commands = 0 /\ do_malformed_output(argv)
    \/ \E argv \in EnableLines(MaxTokens) \cup RedirectedEnables :
            history.commands = 1 /\ do_malformed_output(argv)
SpecEnable == InitVariablesSpec /\ [][NextEnable]_vars

\* The last command was a malformed_output that enabled its options.
Enabled == cmdLine.cmd = "malformed_output" /\ ret = "None"
Holds(list, n) == \E k \in 1..Len(list) : list[k] = n

\* C17: after a malformed_output command that enabled its options,
\* header_file is not None only if malformed_options holds 1 or 2.
C17_HeaderNeedsOption ==
    (Enabled /\ cmdLine.argv \in EnableLines(MaxTokens)) =>
        (~IsNone(variables["header_file"].cur) =>
            \/ Holds(variables["malformed_options"].cur.list, 1)
            \/ Holds(variables["malformed_options"].cur.list, 2))

\* 0 is among the arguments and every argument before it is an option
\* number from 0 to 6.
IsOption(opt) == isdigit(opt) /\ -1 < int(opt) /\ int(opt) < 7
ZeroAmong(args) ==
    \E i \in 1..Len(args) :
        /\ isdigit(args[i]) /\ int(args[i]) = 0
        /\ \A k \in 1..(i - 1) : IsOption(args[k])
ReadOnlyTarget(p) ==
    p.redirect \in {VAR_WRITE, VAR_ADD} /\ p.outputVarName.str \in readOnlyVariables

precmd(line) == IF line = "EOF" THEN "exit" ELSE line

exit(argv) == [Base(InForce) EXCEPT !.retval = "True"]
do_exit(argv) == Step("exit", argv, exit(argv))
quit(argv) == [Base(InForce) EXCEPT !.retval = "True"]
do_quit(argv) == Step("quit", argv, quit(argv))

\* int(s) raises ValueError unless s is an integer literal.
IsInteger(s) == isdigit(s) \/ (Len(s) > 1 /\ CharAt(s, 0) \in {"-", "+"} /\ isdigit(From(s, 1)))

MustOpenBytes == "[!] Error: You must open a file!"
bytes(p) ==
    IF ~p.ok THEN Reply(p, NotParsedMessage, "False")
    ELSE IF Len(p.args) \notin {2, 3} THEN Usage(p, "bytes", "None")
    ELSE IF ~IsInteger(p.args[1]) \/ ~IsInteger(p.args[2]) THEN Raise(p, <<>>)
    ELSE IF ~IsDocument(pdfFile) THEN Raise(p, <<>>)
    ELSE LET got == getBytesFromFile(pdfFile.path, int(p.args[1]), int(p.args[2]))
             calls == <<Call("getPath", "", NoVersion)>>
         IN  IF got.status = -1 THEN ReplyAfter(p, FileMissing, "False", calls)
             ELSE IF Len(p.args) = 2
             THEN [Base(p) EXCEPT !.outputs = <<LogBytes(p, got.value, <<got.value>>)>>,
                                  !.calls = calls]
             ELSE [Base(p) EXCEPT !.files = FileWrite(files, p.args[3], got.value),
                                  !.calls = calls]
do_bytes(argv) ==
    IF pdfFile = NoDocument THEN Step("bytes", argv, Reply(InForce, MustOpenBytes, "False"))
    ELSE Step("bytes", argv, bytes(parseArgs(argv)))

MaxLoop == 3

BytesLines == {"0 2", "1 2 out", "x 2", "0"}
LoopResets == {"header_file", "nope", "nope > out", "nope $> v"}

\* cmdloop is running: no handler has returned a true value and none has
\* ended by an exception.
Looping == ret \notin {"True", "raised"}
Reading == Looping /\ Session(MaxLoop)

NextLoop ==
    \/ \E line \in {"EOF", "exit"} : Reading /\ precmd(line) = "exit" /\ do_exit("")
    \/ Reading /\ precmd("quit") = "quit" /\ do_quit("")
    \/ \E argv \in OpenLines : Reading /\ do_open(argv)
    \/ \E argv \in BytesLines : Reading /\ do_bytes(argv)
    \/ \E argv \in SetLines : Reading /\ do_set(argv)
    \/ \E argv \in LoopResets : Reading /\ do_reset(argv)
    \/ \E argv \in MalformedLines : Reading /\ do_malformed_output(argv)

SpecLoop == InitVariablesSpec /\ [][NextLoop]_vars

\* C19: the command loop ends only with exit, quit or the end of the input:
\* every other command leaves it running; once it has ended leaving is
\* True, and leaving never goes back to False.
C19_LoopEndsOnExit ==
    [][/\ (Looping /\ ~Looping') => cmdLine'.cmd \in {"exit", "quit"}
       /\ ~Looping' => leaving'
       /\ leaving => leaving']_vars

(***************************************************************************)
(* decode with several filters, one of which fails on what the filters     *)
(* before it produced.                                                     *)
(***************************************************************************)
MaxSteps == 2

StepNames == {"ahx", "b64", "fl"}
StepChains == UNION {[1..n -> StepNames] : n \in 1..MaxSteps}
StepSources == {"string 4869", "string NDg2OQ==", "string SGk=", "file hdr"}
StepTargets == {"", " $> w", " $>> w", " > out", " >> hdr"}
StepLines == {s \o ChainText(c) \o t : s \in StepSources, c \in StepChains, t \in StepTargets}

NextSteps == \E argv \in StepLines : After({""}) /\ do_decode(argv)
SpecSteps == InitFilters /\ [][NextSteps]_vars

\* What the first k filters of the line make of its content, when each of
\* them succeeds.
Partial(args, k, textAsBytes) ==
    decodeLoop(codecSource(args[1], args[2], 0, 0).content, codecFilters(SubSeq(args, 1, k + 2), 3, decodeNotImplemented, <<>>).filters,
               1, <<>>, textAsBytes)
Partials(args) ==
    {Partial(args, k, tb).content :
        <<k, tb>> \in {x \in (1..(Len(args) - 3)) \X BOOLEAN :
                         ~Partial(args, x[1], x[2]).raised /\ Partial(args, x[1], x[2]).error = ""}}

IsErrorText(v) == IsStr(v) /\ StartsWith(v.str, "[!] Error")

\* The filter fails on the content: it answers an error, or raises.
StepFails(content, name, textAsBytes) ==
    IF filter2RealFilterDict[name] = "base64" THEN b64decode(content).status = -1
    ELSE LET answer == decodeStream(content, filter2RealFilterDict[name], textAsBytes)
         IN  IF answer = Raised THEN TRUE ELSE answer.status = -1

\* The command was a decode of which a filter after the first fails on what
\* the filters before it decoded.
FailedLater ==
    /\ cmdLine.cmd = "decode"
    /\ LET args == parseArgs(cmdLine.argv).args IN
       \E k \in 1..(Len(args) - 3), tb \in BOOLEAN :
           /\ ~Partial(args, k, tb).raised
           /\ Partial(args, k, tb).error = ""
           /\ StepFails(Partial(args, k, tb).content, lower(args[k + 3]), tb)

\* C20: when a step of a decode with several filters fails, nothing but the
\* error message is emitted: the console shows at most the message, no
\* variable and no file holds content (a byte or more) decoded by the steps
\* before, a variable the output is redirected to holds the message and a
\* file it is redirected to holds nothing new.
C20_FailureDiscardsPartial ==
    FailedLater =>
        /\ ret \in {"False", "raised"}
        /\ \A i \in DOMAIN printed : IsErrorText(printed[i])
        /\ \A n \in DOMAIN variables :
              IF n \in DOMAIN InitVariables THEN variables[n] = InitVariables[n]
              ELSE IsErrorText(variables[n].cur)
        /\ \A n \in DOMAIN files :
              IF n \in DOMAIN InitFiles THEN files[n] = InitFiles[n]
              ELSE files[n] = PyBytes(<<>>)
        /\ \A partial \in Partials(parseArgs(cmdLine.argv).args) \ {PyBytes(<<>>)} :
              /\ \A i \in DOMAIN printed : printed[i] # niceOutputOf(partial)
              /\ \A n \in DOMAIN variables : variables[n].cur # partial
              /\ \A n \in DOMAIN files : files[n] # partial

\* The hexadecimal filter decoded the content, the next filter failed on
\* the result, and the variable of the redirection holds the message.
C20_Witness ==
    /\ cmdLine = [cmd |-> "decode", argv |-> "string 4869 ahx fl $> w"]
    /\ ret = "False"
    /\ PyBytes(<<72, 105>>) \in Partials(parseArgs(cmdLine.argv).args)
    /\ IsErrorText(variables["w"].cur)

====
